---- MODULE Spec2Model ----
(***************************************************************************)
(* cubspack: three-dimensional bin packing.                                *)
(*                                                                         *)
(* A single bin (a PackingAlgorithm instance of the Guillotine or of the   *)
(* Maximal-Cuboids family) is modelled as a record holding the fields of   *)
(* the object; every method is an operator from the bin (and the call's    *)
(* arguments) to the bin after the call and the value returned.            *)
(***************************************************************************)
EXTENDS Integers, Sequences, FiniteSets, TLC

\* bin, last: a single bin and the outcome of the last call on it;
\* A, B: two cuboids (the receiver and the argument of the geometry methods);
\* packer: a packer object (packer.py).  A specification that does not use
\* a variable leaves it None.
VARIABLES bin, last, A, B, packer

vars == <<bin, last, A, B, packer>>

(***************************************************************************)
(* Bounds of the model.                                                    *)
(***************************************************************************)
\* largest side of an item handed to add_cub / fitness
MaxDim == 2
\* a bin is no longer called once it holds this many items
MaxPlaced == 3

Dims == 1..MaxDim

\* the (width, height, depth) of the bins constructed: a cube, a flat bin
\* wider than it is high, and a low bin
BinSizes == {<<2, 2, 2>>, <<3, 2, 1>>, <<2, 1, 2>>}

(***************************************************************************)
(* Python's None, and a present value                                      *)
(***************************************************************************)
None == <<>>
Some(v) == <<v>>

Min2(a, b) == IF a <= b THEN a ELSE b
Max2(a, b) == IF a >= b THEN a ELSE b
Min3(a, b, c) == Min2(a, Min2(b, c))
Max3(a, b, c) == Max2(a, Max2(b, c))

(***************************************************************************)
(* geometry.py: Cuboid                                                     *)
(***************************************************************************)
Cuboid(x, y, z, width, height, depth, rid) ==
    [x |-> x, y |-> y, z |-> z,
     width |-> width, height |-> height, depth |-> depth, rid |-> rid]

bottom(c) == c.y
top(c) == c.y + c.height
left(c) == c.x
right(c) == c.x + c.width
outeye(c) == c.z
ineye(c) == c.z + c.depth

volume(c) == c.width * c.height * c.depth

\* Cuboid.__eq__ / __hash__: origin and size, the rid is ignored
key(c) == <<c.x, c.y, c.z, c.width, c.height, c.depth>>
eq(a, b) == key(a) = key(b)

contains(self, cub) ==
    /\ cub.y >= self.y
    /\ cub.x >= self.x
    /\ cub.z >= self.z
    /\ cub.y + cub.height <= self.y + self.height
    /\ cub.x + cub.width <= self.x + self.width
    /\ cub.z + cub.depth <= self.z + self.depth

\* one-sided variant: the test of the right face against the other's left
\* face is left out of the first check (corner contacts are not discarded)
intersects_leftward(self, cub, edges) ==
    IF \/ bottom(self) > top(cub)
       \/ top(self) < bottom(cub)
       \/ left(self) > right(cub)
       \/ outeye(self) > ineye(cub)
       \/ ineye(self) < outeye(cub)
    THEN FALSE
    ELSE IF /\ ~edges
            /\ \/ bottom(self) = top(cub)
               \/ top(self) = bottom(cub)
               \/ left(self) = right(cub)
               \/ right(self) = left(cub)
               \/ outeye(self) = ineye(cub)
               \/ ineye(self) = outeye(cub)
    THEN FALSE
    ELSE TRUE

\* mutant: cuboids that meet at a single corner are not discarded
intersects_cornered(self, cub, edges) ==
    IF \/ bottom(self) > top(cub)
       \/ top(self) < bottom(cub)
       \/ left(self) > right(cub)
       \/ right(self) < left(cub)
       \/ outeye(self) > ineye(cub)
       \/ ineye(self) < outeye(cub)
    THEN FALSE
    ELSE IF /\ ~edges
            /\ \/ bottom(self) = top(cub)
               \/ top(self) = bottom(cub)
               \/ left(self) = right(cub)
               \/ right(self) = left(cub)
               \/ outeye(self) = ineye(cub)
               \/ ineye(self) = outeye(cub)
    THEN FALSE
    ELSE TRUE

intersects(self, cub, edges) ==
    IF \/ bottom(self) > top(cub)
       \/ top(self) < bottom(cub)
       \/ left(self) > right(cub)
       \/ right(self) < left(cub)
       \/ outeye(self) > ineye(cub)
       \/ ineye(self) < outeye(cub)
    THEN FALSE
    ELSE IF /\ ~edges
            /\ \/ bottom(self) = top(cub)
               \/ top(self) = bottom(cub)
               \/ left(self) = right(cub)
               \/ right(self) = left(cub)
               \/ outeye(self) = ineye(cub)
               \/ ineye(self) = outeye(cub)
    THEN FALSE
    ELSE IF \/ (left(self) = right(cub) /\ bottom(self) = top(cub)
                  /\ outeye(self) = ineye(cub))
            \/ (left(self) = right(cub) /\ bottom(cub) = top(self)
                  /\ outeye(self) = ineye(cub))
            \/ (left(self) = right(cub) /\ bottom(self) = top(cub)
                  /\ outeye(cub) = ineye(self))
            \/ (left(self) = right(cub) /\ bottom(cub) = top(self)
                  /\ outeye(cub) = ineye(self))
            \/ (left(cub) = right(self) /\ bottom(self) = top(cub)
                  /\ outeye(self) = ineye(cub))
            \/ (left(cub) = right(self) /\ bottom(cub) = top(self)
                  /\ outeye(self) = ineye(cub))
            \/ (left(cub) = right(self) /\ bottom(self) = top(cub)
                  /\ outeye(cub) = ineye(self))
            \/ (left(cub) = right(self) /\ bottom(cub) = top(self)
                  /\ outeye(cub) = ineye(self))
    THEN FALSE
    ELSE TRUE

\* Cuboid.join: ok is the value returned, self the receiver after the call
join(self, other) ==
    IF contains(self, other)
    THEN [ok |-> TRUE, self |-> self]
    ELSE IF contains(other, self)
    THEN [ok |-> TRUE,
          self |-> [self EXCEPT !.x = other.x, !.y = other.y, !.z = other.z,
                                !.width = other.width,
                                !.height = other.height,
                                !.depth = other.depth]]
    ELSE IF ~intersects(self, other, TRUE)
    THEN [ok |-> FALSE, self |-> self]
    ELSE IF /\ left(self) = left(other) /\ self.width = other.width
            /\ outeye(self) = outeye(other) /\ self.depth = self.depth
    THEN LET y_min == Min2(bottom(self), bottom(other))
             y_max == Max2(top(self), top(other))
         IN [ok |-> TRUE,
             self |-> [self EXCEPT !.y = y_min, !.height = y_max - y_min]]
    ELSE IF /\ bottom(self) = bottom(other) /\ self.height = other.height
            /\ outeye(self) = outeye(other) /\ self.depth = self.depth
    THEN LET x_min == Min2(left(self), left(other))
             x_max == Max2(right(self), right(other))
         IN [ok |-> TRUE,
             self |-> [self EXCEPT !.x = x_min, !.width = x_max - x_min]]
    ELSE IF /\ bottom(self) = bottom(other) /\ self.height = other.height
            /\ left(self) = left(other) /\ self.width = other.width
    THEN LET z_min == Min2(outeye(self), outeye(other))
             z_max == Max2(ineye(self), ineye(other))
         IN [ok |-> TRUE,
             self |-> [self EXCEPT !.z = z_min, !.depth = z_max - z_min]]
    ELSE [ok |-> FALSE, self |-> self]

(***************************************************************************)
(* pack_algo.py: PackingAlgorithm, the fields shared by both families.     *)
(* family is "Guillotine" or "MaxCubs"; sel is the selection mixin, split  *)
(* the Guillotine split mixin; sections is Guillotine._sections, max_cubs  *)
(* is MaxCubs._max_cubs.                                                   *)
(***************************************************************************)
PackingAlgorithm(family, sel, split, width, height, depth, rot, merge) ==
    [family |-> family, sel |-> sel, split |-> split,
     width |-> width, height |-> height, depth |-> depth,
     rot |-> rot, merge |-> merge,
     cuboids |-> <<>>, sections |-> <<>>, max_cubs |-> <<>>]

(***************************************************************************)
(* guillotine.py                                                           *)
(***************************************************************************)
\* the list comprehension of _add_section: the sections that section does
\* not absorb, and section after the joins
RECURSIVE join_filter(_, _)
join_filter(section, secs) ==
    IF secs = <<>>
    THEN [section |-> section, kept |-> <<>>]
    ELSE LET j == join(section, Head(secs))
             rest == join_filter(j.self, Tail(secs))
         IN [section |-> rest.section,
             kept |-> IF j.ok THEN rest.kept
                      ELSE <<Head(secs)>> \o rest.kept]

\* the while loop of _add_section, and the append that follows it
RECURSIVE merge_loop(_, _, _, _)
merge_loop(merge, section, secs, plen) ==
    IF merge /\ secs # <<>> /\ plen # Len(secs)
    THEN LET p == join_filter(section, secs)
         IN merge_loop(merge, p.section, p.kept, Len(secs))
    ELSE Append(secs, section)

add_section(b, section) ==
    [b EXCEPT !.sections =
        merge_loop(b.merge, [section EXCEPT !.rid = Some(0)], b.sections, 0)]

\* mutant: the offcut beside the item runs the whole height of the section
split_horizontal_tall(b, section, width, height, depth) ==
    LET b1 == IF height < section.height
              THEN add_section(b, Cuboid(
                       section.x, section.y + height, section.z,
                       section.width, section.height - height,
                       section.depth, None))
              ELSE b
        b2 == IF width < section.width
              THEN add_section(b1, Cuboid(
                       section.x + width, section.y, section.z,
                       section.width - width, section.height,
                       section.depth, None))
              ELSE b1
    IN IF depth < section.depth
       THEN add_section(b2, Cuboid(
                section.x, section.y, section.z + depth,
                width, height, section.depth - depth, None))
       ELSE b2

\* if cond: self._add_section(section)
add_section_if(cond, b, section) ==
    IF cond THEN add_section(b, section) ELSE b

split_horizontal(b, section, width, height, depth) ==
    add_section_if(depth < section.depth,
        add_section_if(width < section.width,
            add_section_if(height < section.height, b,
                Cuboid(section.x, section.y + height, section.z,
                       section.width, section.height - height,
                       section.depth, None)),
            Cuboid(section.x + width, section.y, section.z,
                   section.width - width, height, section.depth, None)),
        Cuboid(section.x, section.y, section.z + depth,
               width, height, section.depth - depth, None))

\* mutant: the offcut on top of the item runs the whole width of the section
split_vertical_wide(b, section, width, height, depth) ==
    LET b1 == IF height < section.height
              THEN add_section(b, Cuboid(
                       section.x, section.y + height, section.z,
                       section.width, section.height - height,
                       section.depth, None))
              ELSE b
        b2 == IF width < section.width
              THEN add_section(b1, Cuboid(
                       section.x + width, section.y, section.z,
                       section.width - width, section.height,
                       section.depth, None))
              ELSE b1
    IN IF depth < section.depth
       THEN add_section(b2, Cuboid(
                section.x, section.y, section.z + depth,
                width, height, section.depth - depth, None))
       ELSE b2

split_vertical(b, section, width, height, depth) ==
    add_section_if(depth < section.depth,
        add_section_if(width < section.width,
            add_section_if(height < section.height, b,
                Cuboid(section.x, section.y + height, section.z,
                       width, section.height - height, section.depth, None)),
            Cuboid(section.x + width, section.y, section.z,
                   section.width - width, section.height,
                   section.depth, None)),
        Cuboid(section.x, section.y, section.z + depth,
               width, height, section.depth - depth, None))

\* mutant: the depth of the item is not compared with the section's
section_fitness_flat(sel, section, width, height, depth) ==
    IF width > section.width \/ height > section.height
    THEN None
    ELSE CASE sel = "Bvf" ->
                Some(volume(section) - width * height * depth)
           [] sel = "Blsf" ->
                Some(Max3(section.width - width, section.height - height,
                          section.depth - depth))
           [] sel = "Bssf" ->
                Some(Min3(section.width - width, section.height - height,
                          section.depth - depth))

\* GuillotineBvf / GuillotineBlsf / GuillotineBssf._section_fitness
section_fitness(sel, section, width, height, depth) ==
    IF width > section.width \/ height > section.height
          \/ depth > section.depth
    THEN None
    ELSE CASE sel = "Bvf" ->
                Some(volume(section) - width * height * depth)
           [] sel = "Blsf" ->
                Some(Max3(section.width - width, section.height - height,
                          section.depth - depth))
           [] sel = "Bssf" ->
                Some(Min3(section.width - width, section.height - height,
                          section.depth - depth))

\* GuillotineMaxas._split calls _split_horizontal / _split_vertical with
\* three arguments where they take four: the call raises TypeError
split_raises(b) == b.split = "Maxas"

\* the _split of GuillotineSas, Las, Slas, Llas and Minas
Guillotine_split(b, section, width, height, depth) ==
    LET horizontal ==
            CASE b.split = "Sas" -> section.width < section.height
              [] b.split = "Las" -> section.width >= section.height
              [] b.split = "Slas" ->
                    section.width - width < section.height - height
              [] b.split = "Llas" ->
                    section.width - width >= section.height - height
              [] b.split = "Minas" ->
                    width * ((section.height - height)
                                + (section.depth - depth))
                      >= height * ((section.width - width)
                                      + (section.depth - depth))
    IN IF horizontal
       THEN split_horizontal(b, section, width, height, depth)
       ELSE split_vertical(b, section, width, height, depth)

\* mutant: the last of the least entries is taken
min_last(fit) ==
    fit[CHOOSE i \in 1..Len(fit) :
            \A j \in 1..Len(fit) :
                /\ fit[j].fit[1] >= fit[i].fit[1]
                /\ j > i => fit[j].fit[1] > fit[i].fit[1]]

\* min(fit, key=first item): the first entry of fit whose fit is least
min_first(fit) ==
    fit[CHOOSE i \in 1..Len(fit) :
            \A j \in 1..Len(fit) :
                /\ fit[j].fit[1] >= fit[i].fit[1]
                /\ j < i => fit[j].fit[1] > fit[i].fit[1]]

\* mutant: the rotated candidates are kept when rotation is disabled
chain_turning(fitn, fitr, rot) ==
    SelectSeq(fitn, LAMBDA e : e.fit # None)
        \o SelectSeq(fitr, LAMBDA e : e.fit # None)

\* the chain of the unrotated and the rotated candidates
chain(fitn, fitr, rot) ==
    SelectSeq(fitn, LAMBDA e : e.fit # None)
        \o (IF ~rot THEN <<>> ELSE SelectSeq(fitr, LAMBDA e : e.fit # None))

\* mutant: the first candidate that fits is taken, whatever its score
select_fittest_section_unranked(b, w, h, d) ==
    LET fitn == [i \in 1..Len(b.sections) |->
                    [fit |-> section_fitness(b.sel, b.sections[i], w, h, d),
                     sec |-> b.sections[i], rot |-> FALSE]]
        fitr == [i \in 1..Len(b.sections) |->
                    [fit |-> section_fitness(b.sel, b.sections[i], h, w, d),
                     sec |-> b.sections[i], rot |-> TRUE]]
        fit == chain(fitn, fitr, b.rot)
    IN IF fit = <<>> THEN None
       ELSE Some([sec |-> fit[1].sec, rot |-> fit[1].rot])

\* returns None for (None, None), else Some([sec, rot])
select_fittest_section(b, w, h, d) ==
    LET fitn == [i \in 1..Len(b.sections) |->
                    [fit |-> section_fitness(b.sel, b.sections[i], w, h, d),
                     sec |-> b.sections[i], rot |-> FALSE]]
        fitr == [i \in 1..Len(b.sections) |->
                    [fit |-> section_fitness(b.sel, b.sections[i], h, w, d),
                     sec |-> b.sections[i], rot |-> TRUE]]
        fit == chain(fitn, fitr, b.rot)
    IN IF fit = <<>> THEN None
       ELSE LET m == min_first(fit) IN Some([sec |-> m.sec, rot |-> m.rot])

\* list.remove: the first member equal to c is dropped
RECURSIVE remove(_, _)
remove(s, c) ==
    IF s = <<>> THEN <<>>
    ELSE IF eq(Head(s), c) THEN Tail(s)
    ELSE <<Head(s)>> \o remove(Tail(s), c)

(***************************************************************************)
(* What a call returns: kind is "none" (None), "cub" (the placed Cuboid),  *)
(* "score" (a fitness value) or "TypeError" (the call raised); region and  *)
(* rotated record the free region and the orientation the call selected.   *)
(***************************************************************************)
Ret(kind, cub, score, region, rotated) ==
    [kind |-> kind, cub |-> cub, score |-> score,
     region |-> region, rotated |-> rotated]

RetNone == Ret("none", None, None, None, FALSE)

Guillotine_add_cub(b, width, height, depth, rid) ==
    LET sel == select_fittest_section(b, width, height, depth)
    IN IF sel = None
       THEN [bin |-> b, ret |-> RetNone]
       ELSE LET section == sel[1].sec
                rotated == sel[1].rot
                w == IF rotated THEN height ELSE width
                h == IF rotated THEN width ELSE height
                removed == [b EXCEPT !.sections = remove(b.sections, section)]
            IN IF split_raises(b)
               THEN [bin |-> removed,
                     ret |-> Ret("TypeError", None, None,
                                 Some(section), rotated)]
               ELSE LET cub == Cuboid(section.x, section.y, section.z,
                                      w, h, depth, rid)
                    IN [bin |-> [Guillotine_split(removed, section,
                                                  w, h, depth)
                                    EXCEPT !.cuboids = Append(@, cub)],
                        ret |-> Ret("cub", Some(cub), None,
                                    Some(section), rotated)]

\* mutant: the score is taken for the unturned item whatever was selected
Guillotine_fitness_unturned(b, width, height, depth) ==
    LET sel == select_fittest_section(b, width, height, depth)
    IN IF sel = None THEN None
       ELSE section_fitness(b.sel, sel[1].sec, width, height, depth)

Guillotine_fitness(b, width, height, depth) ==
    LET sel == select_fittest_section(b, width, height, depth)
    IN IF sel = None THEN None
       ELSE IF sel[1].rot
       THEN section_fitness(b.sel, sel[1].sec, height, width, depth)
       ELSE section_fitness(b.sel, sel[1].sec, width, height, depth)

Guillotine_reset(b) ==
    add_section([b EXCEPT !.cuboids = <<>>, !.sections = <<>>],
                Cuboid(0, 0, 0, b.width, b.height, b.depth, None))

(***************************************************************************)
(* maxcubs.py                                                              *)
(***************************************************************************)
cub_fitness(max_cub, width, height, depth) ==
    IF width <= max_cub.width /\ height <= max_cub.height
          /\ depth <= max_cub.depth
    THEN Some(0)
    ELSE None

\* mutant: the rotated candidates are filtered by the unrotated fitness
MaxCubs_select_position_unturned(b, w, h, d) ==
    IF b.max_cubs = <<>> THEN None
    ELSE
    LET fitn == [i \in 1..Len(b.max_cubs) |->
                    [fit |-> cub_fitness(b.max_cubs[i], w, h, d),
                     w |-> w, h |-> h, d |-> d,
                     m |-> b.max_cubs[i], rot |-> FALSE]]
        fitr == [i \in 1..Len(b.max_cubs) |->
                    [fit |-> cub_fitness(b.max_cubs[i], w, h, d),
                     w |-> h, h |-> w, d |-> d,
                     m |-> b.max_cubs[i], rot |-> TRUE]]
        fit == chain(fitn, fitr, b.rot)
    IN IF fit = <<>> THEN None
       ELSE LET e == min_first(fit)
            IN Some([cub |-> Cuboid(e.m.x, e.m.y, e.m.z, e.w, e.h, e.d, None),
                     max_cub |-> e.m, rot |-> e.rot])

\* MaxCubs._select_position, which MaxCubsBssf, MaxCubsBaf and MaxCubsBlsf
\* inherit unchanged: None for (None, None), else Some([cub, max_cub, rot])
MaxCubs_select_position(b, w, h, d) ==
    IF b.max_cubs = <<>> THEN None
    ELSE
    LET fitn == [i \in 1..Len(b.max_cubs) |->
                    [fit |-> cub_fitness(b.max_cubs[i], w, h, d),
                     w |-> w, h |-> h, d |-> d,
                     m |-> b.max_cubs[i], rot |-> FALSE]]
        fitr == [i \in 1..Len(b.max_cubs) |->
                    [fit |-> cub_fitness(b.max_cubs[i], h, w, d),
                     w |-> h, h |-> w, d |-> d,
                     m |-> b.max_cubs[i], rot |-> TRUE]]
        fit == chain(fitn, fitr, b.rot)
    IN IF fit = <<>> THEN None
       ELSE LET e == min_first(fit)
            IN Some([cub |-> Cuboid(e.m.x, e.m.y, e.m.z, e.w, e.h, e.d, None),
                     max_cub |-> e.m, rot |-> e.rot])

\* MaxCubsBl._select_position: the candidates are ranked by the y of the
\* item's top alone (min is keyed on the first entry of each tuple)
MaxCubsBl_select_position(b, w, h, d) ==
    LET fitn == [i \in 1..Len(b.max_cubs) |->
                    [fit |-> IF cub_fitness(b.max_cubs[i], w, h, d) # None
                             THEN Some(b.max_cubs[i].y + h) ELSE None,
                     w |-> w, h |-> h, d |-> d,
                     m |-> b.max_cubs[i], rot |-> FALSE]]
        fitr == [i \in 1..Len(b.max_cubs) |->
                    [fit |-> IF cub_fitness(b.max_cubs[i], h, w, d) # None
                             THEN Some(b.max_cubs[i].y + w) ELSE None,
                     w |-> h, h |-> w, d |-> d,
                     m |-> b.max_cubs[i], rot |-> TRUE]]
        fit == chain(fitn, fitr, b.rot)
    IN IF fit = <<>> THEN None
       ELSE LET e == min_first(fit)
            IN Some([cub |-> Cuboid(e.m.x, e.m.y, e.m.z, e.w, e.h, e.d, None),
                     max_cub |-> e.m, rot |-> e.rot])

select_position(b, w, h, d) ==
    IF b.sel = "Bl" THEN MaxCubsBl_select_position(b, w, h, d)
    ELSE MaxCubs_select_position(b, w, h, d)

\* mutant: the right slab starts at the left face of the item
generate_splits_left(m, c) ==
    (IF left(c) > left(m)
     THEN <<Cuboid(left(m), bottom(m), outeye(m),
                   left(c) - left(m), m.height, m.depth, None)>>
     ELSE <<>>)
    \o (IF right(c) < right(m)
        THEN <<Cuboid(left(c), bottom(m), outeye(m),
                      right(m) - left(c), m.height, m.depth, None)>>
        ELSE <<>>)
    \o (IF top(c) < top(m)
        THEN <<Cuboid(left(m), top(c), outeye(m),
                      m.width, top(m) - top(c), m.depth, None)>>
        ELSE <<>>)
    \o (IF bottom(c) > bottom(m)
        THEN <<Cuboid(left(m), bottom(m), outeye(m),
                      m.width, bottom(c) - bottom(m), m.depth, None)>>
        ELSE <<>>)
    \o (IF ineye(c) < ineye(m)
        THEN <<Cuboid(left(c), bottom(c), ineye(c),
                      c.width, c.height, ineye(m) - ineye(c), None)>>
        ELSE <<>>)

generate_splits(m, c) ==
    (IF left(c) > left(m)
     THEN <<Cuboid(left(m), bottom(m), outeye(m),
                   left(c) - left(m), m.height, m.depth, None)>>
     ELSE <<>>)
    \o (IF right(c) < right(m)
        THEN <<Cuboid(right(c), bottom(m), outeye(m),
                      right(m) - right(c), m.height, m.depth, None)>>
        ELSE <<>>)
    \o (IF top(c) < top(m)
        THEN <<Cuboid(left(m), top(c), outeye(m),
                      m.width, top(m) - top(c), m.depth, None)>>
        ELSE <<>>)
    \o (IF bottom(c) > bottom(m)
        THEN <<Cuboid(left(m), bottom(m), outeye(m),
                      m.width, bottom(c) - bottom(m), m.depth, None)>>
        ELSE <<>>)
    \o (IF ineye(c) < ineye(m)
        THEN <<Cuboid(left(c), bottom(c), ineye(c),
                      c.width, c.height, ineye(m) - ineye(c), None)>>
        ELSE <<>>)

\* mutant: only a maximal cuboid that contains the item is split
RECURSIVE split_containing(_, _)
split_containing(cubs, cub) ==
    IF cubs = <<>> THEN <<>>
    ELSE (IF contains(Head(cubs), cub)
          THEN generate_splits(Head(cubs), cub)
          ELSE <<Head(cubs)>>)
         \o split_containing(Tail(cubs), cub)

\* the loop of MaxCubs._split over self._max_cubs
RECURSIVE split_each(_, _)
split_each(cubs, cub) ==
    IF cubs = <<>> THEN <<>>
    ELSE (IF intersects(Head(cubs), cub, FALSE)
          THEN generate_splits(Head(cubs), cub)
          ELSE <<Head(cubs)>>)
         \o split_each(Tail(cubs), cub)

MaxCubs_split(b, cub) ==
    [b EXCEPT !.max_cubs = split_each(b.max_cubs, cub)]

\* contained is a set of Cuboids, which hash and compare by key
remove_duplicates(b) ==
    LET n == Len(b.max_cubs)
        contained ==
            {key(b.max_cubs[j]) : j \in
                {j \in 1..n : \E i \in 1..n : i < j
                    /\ contains(b.max_cubs[i], b.max_cubs[j])}}
            \cup
            {key(b.max_cubs[i]) : i \in
                {i \in 1..n : \E j \in 1..n : i < j
                    /\ ~contains(b.max_cubs[i], b.max_cubs[j])
                    /\ contains(b.max_cubs[j], b.max_cubs[i])}}
    IN [b EXCEPT !.max_cubs =
            SelectSeq(b.max_cubs, LAMBDA m : key(m) \notin contained)]

MaxCubs_fitness(b, width, height, depth) ==
    LET pos == select_position(b, width, height, depth)
    IN IF pos = None THEN None
       ELSE cub_fitness(pos[1].max_cub, pos[1].cub.width,
                        pos[1].cub.height, pos[1].cub.depth)

MaxCubs_add_cub(b, width, height, depth, rid) ==
    LET pos == select_position(b, width, height, depth)
    IN IF pos = None
       THEN [bin |-> b, ret |-> RetNone]
       ELSE LET cub == [pos[1].cub EXCEPT !.rid = rid]
                done == remove_duplicates(MaxCubs_split(b, pos[1].cub))
            IN [bin |-> [done EXCEPT !.cuboids = Append(done.cuboids, cub)],
                ret |-> Ret("cub", Some(cub), None,
                            Some(pos[1].max_cub), pos[1].rot)]

MaxCubs_reset(b) ==
    [b EXCEPT !.cuboids = <<>>,
              !.max_cubs =
                  <<Cuboid(0, 0, 0, b.width, b.height, b.depth, None)>>]

(***************************************************************************)
(* The methods of a bin, whichever its class                               *)
(***************************************************************************)
add_cub(b, width, height, depth, rid) ==
    IF b.family = "Guillotine"
    THEN Guillotine_add_cub(b, width, height, depth, rid)
    ELSE MaxCubs_add_cub(b, width, height, depth, rid)

fitness(b, width, height, depth) ==
    IF b.family = "Guillotine"
    THEN Guillotine_fitness(b, width, height, depth)
    ELSE MaxCubs_fitness(b, width, height, depth)

reset(b) ==
    IF b.family = "Guillotine" THEN Guillotine_reset(b) ELSE MaxCubs_reset(b)

\* the classes the package exports, with the keyword arguments they take
Algorithms ==
    {[family |-> "Guillotine", sel |-> s, split |-> p, merge |-> m] :
        s \in {"Bvf", "Blsf", "Bssf"},
        p \in {"Sas", "Las", "Slas", "Llas", "Maxas", "Minas"},
        m \in BOOLEAN}
    \cup
    {[family |-> "MaxCubs", sel |-> s, split |-> "none", merge |-> FALSE] :
        s \in {"Bl", "Bssf", "Baf", "Blsf"}}

\* the rid handed to add_cub
Rids == {None}

(***************************************************************************)
(* The state machine: one bin, and the outcome of the last call on it      *)
(***************************************************************************)
Init ==
    /\ \E a \in Algorithms, size \in BinSizes, rot \in BOOLEAN :
          bin = reset(PackingAlgorithm(a.family, a.sel, a.split,
                          size[1], size[2], size[3], rot, a.merge))
    /\ last = [op |-> "reset", ret |-> RetNone]
    /\ A = None /\ B = None /\ packer = None

AddCub ==
    /\ Len(bin.cuboids) < MaxPlaced
    /\ \E w \in Dims, h \in Dims, d \in Dims, rid \in Rids :
          LET r == add_cub(bin, w, h, d, rid)
          IN /\ bin' = r.bin
             /\ last' = [op |-> "add_cub", ret |-> r.ret]
    /\ UNCHANGED <<A, B, packer>>

Fitness ==
    /\ Len(bin.cuboids) < MaxPlaced
    /\ \E w \in Dims, h \in Dims, d \in Dims :
          LET f == fitness(bin, w, h, d)
          IN /\ last' = [op |-> "fitness",
                         ret |-> IF f = None THEN RetNone
                                 ELSE Ret("score", None, f, None, FALSE)]
             /\ UNCHANGED <<bin, A, B, packer>>

Reset ==
    /\ bin' = reset(bin)
    /\ last' = [op |-> "reset", ret |-> RetNone]
    /\ UNCHANGED <<A, B, packer>>

Next == AddCub \/ Fitness \/ Reset

Spec == Init /\ [][Next]_vars

(***************************************************************************)
(* Vocabulary of the properties                                            *)
(***************************************************************************)
\* the free regions of a bin: its sections or its maximal cuboids
free(b) == IF b.family = "Guillotine" THEN b.sections ELSE b.max_cubs

\* the interiors of a and b meet: positive overlap on all three axes
overlap(a, b) ==
    /\ a.x < b.x + b.width /\ b.x < a.x + a.width
    /\ a.y < b.y + b.height /\ b.y < a.y + a.height
    /\ a.z < b.z + b.depth /\ b.z < a.z + a.depth

\* c lies inside the bin b
inside(c, b) ==
    /\ 0 <= c.x /\ c.x + c.width <= b.width
    /\ 0 <= c.y /\ c.y + c.height <= b.height
    /\ 0 <= c.z /\ c.z + c.depth <= b.depth

RECURSIVE sum_volume(_)
sum_volume(s) == IF s = <<>> THEN 0 ELSE volume(Head(s)) + sum_volume(Tail(s))

\* an item of size (w, h, d), unturned, is no larger than region r
holds(r, w, h, d) == w <= r.width /\ h <= r.height /\ d <= r.depth

\* no free region of b can take (w, h, d) in an orientation b allows
unplaceable(b, w, h, d) ==
    \A i \in 1..Len(free(b)) :
        /\ ~holds(free(b)[i], w, h, d)
        /\ b.rot => ~holds(free(b)[i], h, w, d)

placed(b) == {b.cuboids[i] : i \in 1..Len(b.cuboids)}

returned_item == last.op = "add_cub" /\ last.ret.kind = "cub"

(***************************************************************************)
(* C1  P1 containment: every item in the placed list of a bin, whatever    *)
(* its algorithm, rotation and merge flags, lies inside the bin on all     *)
(* three axes.                                                             *)
(***************************************************************************)
C1_Containment ==
    \A i \in 1..Len(bin.cuboids) : inside(bin.cuboids[i], bin)

\* three items are placed, the last one reaching the far faces of the bin
C1_Witness ==
    /\ returned_item
    /\ Len(bin.cuboids) = MaxPlaced
    /\ LET c == bin.cuboids[Len(bin.cuboids)]
       IN c.x > 0 /\ c.x + c.width = bin.width /\ c.z + c.depth = bin.depth

(***************************************************************************)
(* C2  P2 non-overlap, Guillotine: no two items placed in a Guillotine bin *)
(* (merge on or off) have interiors that overlap.                          *)
(***************************************************************************)
C2_GuillotineNonOverlap ==
    bin.family = "Guillotine" =>
        \A i, j \in 1..Len(bin.cuboids) :
            i < j => ~overlap(bin.cuboids[i], bin.cuboids[j])

\* a merging Guillotine bin holds three items, two of them sharing a face,
\* and its free sections have been merged down to one
C2_Witness ==
    /\ bin.family = "Guillotine" /\ bin.merge
    /\ returned_item
    /\ Len(bin.cuboids) = MaxPlaced
    /\ Len(bin.sections) = 1
    /\ sum_volume(bin.sections) > 1
    /\ \E i, j \in 1..Len(bin.cuboids) :
          i < j /\ bin.cuboids[i].x + bin.cuboids[i].width = bin.cuboids[j].x

(***************************************************************************)
(* C3  P2 non-overlap, Maximal Cuboids: no two items placed in a MaxCubs   *)
(* bin have interiors that overlap.                                        *)
(***************************************************************************)
C3_MaxCubsNonOverlap ==
    bin.family = "MaxCubs" =>
        \A i, j \in 1..Len(bin.cuboids) :
            i < j => ~overlap(bin.cuboids[i], bin.cuboids[j])

\* a MaxCubs bin holds three items, one of them behind another
C3_Witness ==
    /\ bin.family = "MaxCubs"
    /\ returned_item
    /\ Len(bin.cuboids) = MaxPlaced
    /\ \E i, j \in 1..Len(bin.cuboids) :
          /\ i < j
          /\ bin.cuboids[j].z = bin.cuboids[i].z + bin.cuboids[i].depth
          /\ bin.cuboids[j].x = bin.cuboids[i].x
          /\ bin.cuboids[j].y = bin.cuboids[i].y

(***************************************************************************)
(* C4  P3 Guillotine free-region soundness: after reset and after every    *)
(* add_cub that returns an item, the free sections are pairwise interior-  *)
(* disjoint, lie in the bin, overlap no placed item, and their volumes sum *)
(* to the bin's volume less the placed items' volumes.                     *)
(***************************************************************************)
C4_GuillotineSections ==
    (bin.family = "Guillotine" /\ (last.op = "reset" \/ returned_item)) =>
        /\ \A i, j \in 1..Len(bin.sections) :
              i < j => ~overlap(bin.sections[i], bin.sections[j])
        /\ \A i \in 1..Len(bin.sections) :
              /\ inside(bin.sections[i], bin)
              /\ \A c \in placed(bin) : ~overlap(bin.sections[i], c)
        /\ sum_volume(bin.sections)
              = bin.width * bin.height * bin.depth - sum_volume(bin.cuboids)

\* three items placed in a Guillotine bin that still has several sections
C4_Witness ==
    /\ bin.family = "Guillotine"
    /\ returned_item
    /\ Len(bin.cuboids) = MaxPlaced
    /\ Len(bin.sections) >= 3

(***************************************************************************)
(* C5  P4 emptiness: after reset and after every add_cub that returns an   *)
(* item, every maximal cuboid of a MaxCubs bin lies inside the bin and     *)
(* overlaps no placed item.                                                *)
(***************************************************************************)
C5_MaxCubsEmpty ==
    (bin.family = "MaxCubs" /\ (last.op = "reset" \/ returned_item)) =>
        \A i \in 1..Len(bin.max_cubs) :
            /\ inside(bin.max_cubs[i], bin)
            /\ \A c \in placed(bin) : ~overlap(bin.max_cubs[i], c)

\* two items placed in a MaxCubs bin whose maximal cuboids still overlap
C5_Witness ==
    /\ bin.family = "MaxCubs"
    /\ returned_item
    /\ Len(bin.cuboids) >= 2
    /\ \E i, j \in 1..Len(bin.max_cubs) :
          i < j /\ overlap(bin.max_cubs[i], bin.max_cubs[j])

\* every axis-aligned cuboid with corners on the grid that lies in bin b
boxes(b) ==
    {Cuboid(x, y, z, w, h, d, None) :
        x \in 0..(b.width - 1), y \in 0..(b.height - 1),
        z \in 0..(b.depth - 1),
        w \in 1..b.width, h \in 1..b.height, d \in 1..b.depth}

(***************************************************************************)
(* C6  P4 completeness: after every add_cub that returns an item, every    *)
(* axis-aligned cuboid inside a MaxCubs bin that overlaps no placed item   *)
(* is contained in some member of the maximal-cuboid list.                 *)
(***************************************************************************)
C6_MaxCubsComplete ==
    (bin.family = "MaxCubs" /\ returned_item) =>
        \A e \in boxes(bin) :
            (inside(e, bin) /\ \A c \in placed(bin) : ~overlap(e, c)) =>
                \E i \in 1..Len(bin.max_cubs) : contains(bin.max_cubs[i], e)

(***************************************************************************)
(* C7  Placement failure is a no-op: in every reachable bin state, when no *)
(* free region can hold (w, h, d) in an allowed orientation, add_cub       *)
(* returns None without raising and leaves the bin (its placed items and   *)
(* its free regions) as it was.                                            *)
(***************************************************************************)
C7_FailureNoOp ==
    \A w \in Dims, h \in Dims, d \in Dims :
        unplaceable(bin, w, h, d) =>
            LET r == add_cub(bin, w, h, d, None)
            IN r.ret.kind = "none" /\ r.bin = bin

\* add_cub has just returned None on a bin that holds an item and still
\* has free regions
C7_Witness ==
    /\ last.op = "add_cub" /\ last.ret.kind = "none"
    /\ Len(bin.cuboids) >= 1
    /\ free(bin) # <<>>
    /\ \E w \in Dims, h \in Dims, d \in Dims : unplaceable(bin, w, h, d)

\* the score the bin's fitness function gives (w, h, d) in region r
score_of(b, r, w, h, d) ==
    IF b.family = "Guillotine" THEN section_fitness(b.sel, r, w, h, d)
    ELSE cub_fitness(r, w, h, d)

(***************************************************************************)
(* C8  fitness is a pure probe that agrees with add_cub: in every          *)
(* reachable state and for every (w, h, d), fitness returns None exactly   *)
(* when add_cub would return None, and otherwise the score of the region   *)
(* and orientation add_cub would use; a call of fitness leaves the bin     *)
(* unchanged.                                                              *)
(***************************************************************************)
C8_FitnessProbe ==
    /\ [](\A w \in Dims, h \in Dims, d \in Dims :
            LET f == fitness(bin, w, h, d)
                r == add_cub(bin, w, h, d, None).ret
            IN /\ (f = None) <=> (r.kind = "none")
               /\ f # None =>
                    f = score_of(bin, r.region[1],
                                 IF r.rotated THEN h ELSE w,
                                 IF r.rotated THEN w ELSE h, d))
    /\ [][last'.op = "fitness" => bin' = bin]_vars

\* fitness has just returned a score on a bin that holds items, and some
\* item is scored in its turned orientation only
C8_Witness ==
    /\ last.op = "fitness" /\ last.ret.kind = "score"
    /\ Len(bin.cuboids) >= 2
    /\ \E w \in Dims, h \in Dims, d \in Dims :
          /\ fitness(bin, w, h, d) # None
          /\ add_cub(bin, w, h, d, None).ret.rotated

\* the value the bin's selector ranks (w, h, d) in region r by
rank(b, r, w, h, d) ==
    IF b.family = "Guillotine" THEN section_fitness(b.sel, r, w, h, d)
    ELSE IF b.sel = "Bl"
    THEN (IF holds(r, w, h, d) THEN Some(r.y + h) ELSE None)
    ELSE cub_fitness(r, w, h, d)

\* the least rank of (w, h, d), unturned, over the free regions of b
best(b, w, h, d) ==
    LET S == {i \in 1..Len(free(b)) : rank(b, free(b)[i], w, h, d) # None}
    IN IF S = {} THEN None
       ELSE Some(rank(b, free(b)[
                CHOOSE i \in S : \A j \in S :
                    rank(b, free(b)[j], w, h, d)[1]
                        >= rank(b, free(b)[i], w, h, d)[1]], w, h, d)[1])

(***************************************************************************)
(* C9  Rotation only swaps width and height: an item returned by           *)
(* add_cub(w, h, d) has depth d and (width, height) equal to (w, h) or     *)
(* (h, w); with rotation disabled it is (w, h); with rotation enabled the  *)
(* orientation whose best rank is smaller is used, the unrotated one on a  *)
(* tie.                                                                    *)
(***************************************************************************)
C9_RotationSwap ==
    \A w \in Dims, h \in Dims, d \in Dims :
        LET r == add_cub(bin, w, h, d, None).ret
        IN r.kind = "cub" =>
            LET c == r.cub[1]
                n == best(bin, w, h, d)
                t == best(bin, h, w, d)
            IN /\ c.depth = d
               /\ <<c.width, c.height>> \in {<<w, h>>, <<h, w>>}
               /\ ~bin.rot => <<c.width, c.height>> = <<w, h>>
               /\ bin.rot =>
                    IF n # None /\ (t = None \/ n[1] <= t[1])
                    THEN <<c.width, c.height>> = <<w, h>>
                    ELSE <<c.width, c.height>> = <<h, w>>

\* add_cub has just placed an item turned, on a bin that held items
C9_Witness ==
    /\ returned_item
    /\ bin.rot
    /\ last.ret.rotated
    /\ last.ret.cub[1].width # last.ret.cub[1].height
    /\ Len(bin.cuboids) >= 2

(***************************************************************************)
(* C10  P5 rotation parity: with rotation enabled, in every bin state,     *)
(* add_cub(a, b, c) returns an item if and only if add_cub(b, a, c) does.  *)
(***************************************************************************)
C10_RotationParity ==
    bin.rot =>
        \A a \in Dims, b \in Dims, c \in Dims :
            (add_cub(bin, a, b, c, None).ret.kind = "cub")
                <=> (add_cub(bin, b, a, c, None).ret.kind = "cub")

\* a turning bin has placed an item that fits it in one orientation only
C10_Witness ==
    /\ returned_item
    /\ bin.rot
    /\ LET c == last.ret.cub[1]
           r == last.ret.region[1]
       IN /\ c.width # c.height
          /\ ~holds(r, c.height, c.width, c.depth)

(***************************************************************************)
(* geometry.py: Cuboid.intersection                                        *)
(***************************************************************************)
intersection(self, cub, edges) ==
    IF ~intersects(self, cub, edges)
    THEN None
    ELSE LET bottom_ == Max2(bottom(self), bottom(cub))
             left_ == Max2(left(self), left(cub))
             top_ == Min2(top(self), top(cub))
             right_ == Min2(right(self), right(cub))
             outeye_ == Max2(outeye(self), outeye(cub))
             ineye_ == Min2(ineye(self), ineye(cub))
         IN Some(Cuboid(left_, bottom_, outeye_,
                        right_ - left_, top_ - bottom_, ineye_ - outeye_,
                        None))

(***************************************************************************)
(* The geometry state machine: two cuboids A and B with positive sides;    *)
(* each step calls one method of A with B as its argument.  last records   *)
(* the call: the receiver and the argument as they were before it, and the *)
(* value returned.                                                         *)
(***************************************************************************)
Coords == 0..2

Cuboids ==
    {Cuboid(x, y, z, w, h, d, None) :
        x \in Coords, y \in Coords, z \in Coords,
        w \in Dims, h \in Dims, d \in Dims}

Called(op, ret, edges) ==
    [op |-> op, ret |-> ret, self |-> A, other |-> B, edges |-> edges]

\* The pair lies against the three coordinate planes (on each axis one of
\* the two starts at 0): the methods only compare and subtract coordinates.
GeometryInit ==
    /\ A \in Cuboids
    /\ B \in Cuboids
    /\ Min2(A.x, B.x) = 0 /\ Min2(A.y, B.y) = 0 /\ Min2(A.z, B.z) = 0
    /\ last = [op |-> "new", ret |-> None, self |-> A, other |-> B,
               edges |-> FALSE]
    /\ bin = None /\ packer = None

Join ==
    LET r == join(A, B)
    IN /\ A' = r.self
       /\ last' = Called("join", r.ok, FALSE)
       /\ UNCHANGED <<B, bin, packer>>

Intersects ==
    \E edges \in BOOLEAN :
        /\ last' = Called("intersects", intersects(A, B, edges), edges)
        /\ UNCHANGED <<A, B, bin, packer>>

Intersection ==
    \E edges \in BOOLEAN :
        /\ last' = Called("intersection", intersection(A, B, edges), edges)
        /\ UNCHANGED <<A, B, bin, packer>>

GeometryNext == Join \/ Intersects \/ Intersection

GeometrySpec == GeometryInit /\ [][GeometryNext]_vars

\* the unit cells a cuboid with integer origin and sides is made of
cells(c) ==
    {<<i, j, k>> : i \in c.x..(c.x + c.width - 1),
                   j \in c.y..(c.y + c.height - 1),
                   k \in c.z..(c.z + c.depth - 1)}

(***************************************************************************)
(* C11  P7 join law: A.join(B) returns true only when the union of A and B *)
(* is itself a cuboid, and then A is exactly that union; when it returns   *)
(* false A is as it was; B is never modified.                              *)
(***************************************************************************)
C11_JoinLaw ==
    last.op = "join" =>
        /\ B = last.other
        /\ last.ret => cells(A) = cells(last.self) \cup cells(last.other)
        /\ ~last.ret => A = last.self

(***************************************************************************)
(* C12  P8 intersection symmetry: for both values of edges,                *)
(* A.intersects(B, edges) = B.intersects(A, edges), and                    *)
(* A.intersection(B, edges) and B.intersection(A, edges) are both None or  *)
(* equal cuboids; what a call returned is what the call with receiver and  *)
(* argument exchanged returns.                                             *)
(***************************************************************************)
C12_IntersectionSymmetry ==
    /\ \A edges \in BOOLEAN :
          LET ab == intersection(A, B, edges)
              ba == intersection(B, A, edges)
          IN /\ intersects(A, B, edges) = intersects(B, A, edges)
             /\ (ab = None) <=> (ba = None)
             /\ ab # None => eq(ab[1], ba[1])
    /\ last.op = "intersects" =>
          last.ret = intersects(last.other, last.self, last.edges)
    /\ last.op = "intersection" =>
          last.ret = intersection(last.other, last.self, last.edges)

\* intersection has returned a cuboid with a face of no thickness for two
\* different cuboids that touch
C12_Witness ==
    /\ last.op = "intersection"
    /\ last.edges
    /\ last.ret # None
    /\ volume(last.ret[1]) = 0
    /\ ~eq(last.self, last.other)

(***************************************************************************)
(* pack_algo.py: PackingAlgorithm.validate_packing.  The value is RetNone  *)
(* when the method returns, and of kind "Exception" when it raises.        *)
(***************************************************************************)
validate_packing(b) ==
    LET volume_ == Cuboid(0, 0, 0, b.width, b.height, b.width, None)
        cuboids == b.cuboids
    IN IF \E i \in 1..Len(cuboids) : ~contains(volume_, cuboids[i])
       THEN Ret("Exception", None, None, None, FALSE)
       ELSE IF Len(cuboids) <= 1
       THEN RetNone
       ELSE IF \E c1 \in 0..(Len(cuboids) - 3) :
                 \E c2 \in (c1 + 1)..(Len(cuboids) - 2) :
                     intersects(cuboids[c1 + 1], cuboids[c2 + 1], FALSE)
       THEN Ret("Exception", None, None, None, FALSE)
       ELSE RetNone

(***************************************************************************)
(* The state machine of a bin that is validated: bins that are deeper than *)
(* wide, wider than deep, and as wide as deep.                             *)
(***************************************************************************)
ValidateSizes == {<<1, 1, 2>>, <<2, 1, 1>>, <<1, 2, 2>>, <<2, 2, 2>>}

ValidateInit ==
    /\ \E a \in Algorithms, size \in ValidateSizes, rot \in BOOLEAN :
          bin = reset(PackingAlgorithm(a.family, a.sel, a.split,
                          size[1], size[2], size[3], rot, a.merge))
    /\ last = [op |-> "reset", ret |-> RetNone]
    /\ A = None /\ B = None /\ packer = None

Validate ==
    /\ last' = [op |-> "validate_packing", ret |-> validate_packing(bin)]
    /\ UNCHANGED <<bin, A, B, packer>>

ValidateNext == AddCub \/ Reset \/ Validate

ValidateSpec == ValidateInit /\ [][ValidateNext]_vars

(***************************************************************************)
(* C13  validate_packing is a complete post-condition check: it raises if  *)
(* and only if some placed item is not contained in the box                *)
(* (0, 0, 0, W, H, D) of the bin or some pair of distinct placed items     *)
(* strictly intersects; otherwise it returns normally.                     *)
(***************************************************************************)
C13_ValidateComplete ==
    last.op = "validate_packing" =>
        ((last.ret.kind = "Exception") <=>
            \/ \E i \in 1..Len(bin.cuboids) :
                  ~contains(Cuboid(0, 0, 0, bin.width, bin.height,
                                   bin.depth, None), bin.cuboids[i])
            \/ \E i \in 1..Len(bin.cuboids), j \in 1..Len(bin.cuboids) :
                  i # j /\ intersects(bin.cuboids[i], bin.cuboids[j], FALSE))

(***************************************************************************)
(* pack_algo.py: PackingAlgorithm._fits_volume                             *)
(***************************************************************************)
fits_volume(b, width, height, depth) ==
    LET swap == (b.rot /\ width > b.width) \/ height > b.height
        w == IF swap THEN height ELSE width
        h == IF swap THEN width ELSE height
        d == depth
    IN ~(w > b.width \/ h > b.height \/ d > b.depth)

(***************************************************************************)
(* packer.py: the sort keys.  sorted(..., reverse=True) is stable: of two  *)
(* items with equal keys the one registered first stays first.             *)
(***************************************************************************)
sort_key(sort_algo, c) ==
    IF sort_algo = "SORT_VOLUME" THEN <<c[1] * c[2] * c[3]>>
    ELSE IF sort_algo = "SORT_AREA"
    THEN <<2 * (c[1] * c[2]) + 2 * (c[1] * c[3]) + 2 * (c[2] * c[3])>>
    ELSE IF sort_algo = "SORT_SSIDE"
    THEN <<Min3(c[1], c[2], c[3]), Max3(c[1], c[2], c[3])>>
    ELSE IF sort_algo = "SORT_LSIDE"
    THEN <<Max3(c[1], c[2], c[3]), Min3(c[1], c[2], c[3])>>
    ELSE <<>>

\* tuple comparison: k1 > k2
RECURSIVE key_greater(_, _)
key_greater(k1, k2) ==
    IF k1 = <<>> \/ k2 = <<>> THEN FALSE
    ELSE IF Head(k1) # Head(k2) THEN Head(k1) > Head(k2)
    ELSE key_greater(Tail(k1), Tail(k2))

\* c put into a list sorted largest first, behind the members that are not
\* smaller than it
RECURSIVE sorted_insert(_, _, _)
sorted_insert(sort_algo, s, c) ==
    IF s = <<>> THEN <<c>>
    ELSE IF key_greater(sort_key(sort_algo, c), sort_key(sort_algo, Head(s)))
    THEN <<c>> \o s
    ELSE <<Head(s)>> \o sorted_insert(sort_algo, Tail(s), c)

RECURSIVE sorted_reverse(_, _)
sorted_reverse(sort_algo, cublist) ==
    IF cublist = <<>> THEN <<>>
    ELSE sorted_insert(sort_algo,
             sorted_reverse(sort_algo,
                 SubSeq(cublist, 1, Len(cublist) - 1)),
             cublist[Len(cublist)])

sort_cublist(sort_algo, cublist) ==
    IF sort_algo = "SORT_NONE" THEN cublist
    ELSE sorted_reverse(sort_algo, cublist)

(***************************************************************************)
(* packer.py: BinFactory.  pack_algo is the class of the bins (a member of *)
(* Algorithms), rot the keyword argument handed to it; ref_bin is None     *)
(* until a probe creates the reference bin.                                *)
(***************************************************************************)
BinFactory(width, height, depth, count, pack_algo, rot) ==
    [width |-> width, height |-> height, depth |-> depth, count |-> count,
     pack_algo |-> pack_algo, rot |-> rot, ref_bin |-> None]

create_bin(f) ==
    reset(PackingAlgorithm(f.pack_algo.family, f.pack_algo.sel,
              f.pack_algo.split, f.width, f.height, f.depth, f.rot,
              f.pack_algo.merge))

BinFactory_is_empty(f) == f.count < 1

\* the factory once its reference bin exists
with_ref_bin(f) ==
    IF f.ref_bin = None THEN [f EXCEPT !.ref_bin = Some(create_bin(f))]
    ELSE f

\* the methods of a factory give the factory after the call and the value
\* returned
\* g is the factory once its reference bin exists
ref_fitness(g, width, height, depth) ==
    [fac |-> g, ret |-> fitness(g.ref_bin[1], width, height, depth)]

BinFactory_fitness(f, width, height, depth) ==
    ref_fitness(with_ref_bin(f), width, height, depth)

ref_fits_inside(g, width, height, depth) ==
    [fac |-> g, ret |-> fits_volume(g.ref_bin[1], width, height, depth)]

BinFactory_fits_inside(f, width, height, depth) ==
    ref_fits_inside(with_ref_bin(f), width, height, depth)

\* mutant: a bin is handed out whatever the remaining count
BinFactory_new_bin_unbounded(f) ==
    [fac |-> [f EXCEPT !.count = f.count - 1], ret |-> Some(create_bin(f))]

BinFactory_new_bin(f) ==
    IF f.count > 0
    THEN [fac |-> [f EXCEPT !.count = f.count - 1],
          ret |-> Some(create_bin(f))]
    ELSE [fac |-> f, ret |-> None]

(***************************************************************************)
(* packer.py: PackerOnline and Packer.  cls is the class of the packer;    *)
(* empty_bins is the ordered dictionary of the factories (key, fac) in     *)
(* insertion order; avail_bins, avail_cub and sorted_cub are the fields of *)
(* the off-line classes.                                                   *)
(***************************************************************************)
OnlineClasses == {"PackerOnlineBNF", "PackerOnlineBFF", "PackerOnlineBBF"}

OfflineClasses == {"PackerBNF", "PackerBFF", "PackerBBF", "PackerGlobal"}

\* the mixin whose add_cub the class inherits
mixin(cls) ==
    IF cls \in {"PackerOnlineBNF", "PackerBNF", "PackerGlobal"} THEN "BNF"
    ELSE IF cls \in {"PackerOnlineBFF", "PackerBFF"} THEN "BFF"
    ELSE "BBF"

PackerOnline_reset(p) ==
    [p EXCEPT !.closed_bins = <<>>, !.open_bins = <<>>,
              !.empty_bins = <<>>, !.bin_count = 0]

\* the constructors; PackerGlobal takes no sort key (SORT_NONE)
Packer(cls, pack_algo, sort_algo, rotation) ==
    PackerOnline_reset(
        [cls |-> cls, pack_algo |-> pack_algo, rotation |-> rotation,
         sort_algo |-> IF cls = "PackerGlobal" \/ cls \in OnlineClasses
                       THEN "SORT_NONE" ELSE sort_algo,
         closed_bins |-> <<>>, open_bins |-> <<>>, empty_bins |-> <<>>,
         bin_count |-> 0,
         avail_bins |-> <<>>, avail_cub |-> <<>>, sorted_cub |-> <<>>])

\* what a call on a packer returns: kind is "none" (None), "cub" (the
\* placed Cuboid), "True", "False", or "TypeError" (the call raised)
PRet(kind, cub) == [kind |-> kind, cub |-> cub]

\* the bins of a packer, closed bins first (PackerOnline.__iter__)
bins(p) == p.closed_bins \o p.open_bins

PackerOnline_add_bin(p, width, height, depth, count) ==
    [p EXCEPT !.empty_bins =
                  Append(@, [key |-> p.bin_count,
                             fac |-> BinFactory(width, height, depth, count,
                                                p.pack_algo, p.rotation)]),
              !.bin_count = @ + 1]

\* del: the members of s at the positions in del are deleted
delete_at(s, del) ==
    LET keep(i) == i \notin del
        F[i \in 0..Len(s)] ==
            IF i = 0 THEN <<>>
            ELSE IF keep(i) THEN Append(F[i - 1], s[i]) ELSE F[i - 1]
    IN F[Len(s)]

\* PackerOnline._new_open_bin from the i-th factory on; new_bin tells
\* whether a bin was opened (it is then the last of open_bins)
RECURSIVE new_open_bin_from(_, _, _, _, _)
\* new_bin() of the i-th factory has answered nb
new_open_bin_made(p, i, width, height, depth, nb) ==
    IF nb.ret = None
    THEN new_open_bin_from([p EXCEPT !.empty_bins[i].fac = nb.fac],
                           i + 1, width, height, depth)
    ELSE [packer |->
              [p EXCEPT
                  !.empty_bins[i].fac = nb.fac,
                  !.open_bins = Append(@, nb.ret[1]),
                  !.empty_bins =
                      IF BinFactory_is_empty(nb.fac)
                      THEN delete_at(@, {i}) ELSE @],
          new_bin |-> TRUE]

\* fits_inside() of the i-th factory has answered probe
new_open_bin_probed(p, i, width, height, depth, probe) ==
    IF ~probe.ret
    THEN new_open_bin_from([p EXCEPT !.empty_bins[i].fac = probe.fac],
                           i + 1, width, height, depth)
    ELSE new_open_bin_made([p EXCEPT !.empty_bins[i].fac = probe.fac],
                           i, width, height, depth,
                           BinFactory_new_bin(probe.fac))

new_open_bin_from(p, i, width, height, depth) ==
    IF i > Len(p.empty_bins)
    THEN [packer |-> p, new_bin |-> FALSE]
    ELSE new_open_bin_probed(p, i, width, height, depth,
             BinFactory_fits_inside(p.empty_bins[i].fac,
                                    width, height, depth))

PackerOnline_new_open_bin(p, width, height, depth) ==
    new_open_bin_from(p, 1, width, height, depth)

\* PackerGlobal._new_open_bin(remaining_cub) from the i-th factory on; del
\* holds the positions of the factories marked for deletion
RECURSIVE Global_new_open_bin_from(_, _, _)
\* new_bin() of the i-th factory has answered nb
Global_new_open_bin_made(p, i, del, nb) ==
    IF nb.ret = None
    THEN Global_new_open_bin_from([p EXCEPT !.empty_bins[i].fac = nb.fac],
                                  i + 1, del)
    ELSE [packer |->
              [p EXCEPT
                  !.empty_bins[i].fac = nb.fac,
                  !.open_bins = Append(@, nb.ret[1]),
                  !.empty_bins = delete_at(@,
                      IF BinFactory_is_empty(nb.fac)
                      THEN del \cup {i} ELSE del)],
          new_bin |-> TRUE]

\* a remaining cuboid fits inside the factory f
a_cuboid_fits(f, remaining_cub) ==
    \E k \in 1..Len(remaining_cub) :
        BinFactory_fits_inside(f, remaining_cub[k].cub[1],
            remaining_cub[k].cub[2], remaining_cub[k].cub[3]).ret

\* the i-th factory, g after the probes, has answered fits
Global_new_open_bin_probed(p, i, del, g, fits) ==
    IF ~fits
    THEN Global_new_open_bin_from([p EXCEPT !.empty_bins[i].fac = g],
                                  i + 1, del \cup {i})
    ELSE Global_new_open_bin_made([p EXCEPT !.empty_bins[i].fac = g],
                                  i, del, BinFactory_new_bin(g))

Global_new_open_bin_from(p, i, del) ==
    IF i > Len(p.empty_bins)
    THEN [packer |-> [p EXCEPT !.empty_bins = delete_at(@, del)],
          new_bin |-> FALSE]
    ELSE Global_new_open_bin_probed(p, i, del,
             IF p.sorted_cub = <<>> THEN p.empty_bins[i].fac
             ELSE with_ref_bin(p.empty_bins[i].fac),
             a_cuboid_fits(p.empty_bins[i].fac, p.sorted_cub))

PackerGlobal_new_open_bin(p) == Global_new_open_bin_from(p, 1, {})

\* self._new_open_bin(width, height, depth, rid=rid) as the mixins call it:
\* PackerGlobal overrides the method with one that takes a single argument,
\* so the call raises TypeError there
raises_new_open_bin(p) == p.cls = "PackerGlobal"

last_open(p) == p.open_bins[Len(p.open_bins)]

(***************************************************************************)
(* packer.py: PackerBNFMixin.add_cub.  Every method of a packer gives the  *)
(* packer after the call and the value returned.                           *)
(***************************************************************************)
\* mutant: the head bin is closed only when another bin can be opened
RECURSIVE PackerBNFMixin_add_cub_keeping(_, _, _, _, _)
PackerBNFMixin_add_cub_keeping(p, width, height, depth, rid) ==
    LET o == PackerOnline_new_open_bin(p, width, height, depth)
        q == IF Len(p.open_bins) = 0 THEN o.packer ELSE p
    IN IF Len(p.open_bins) = 0 /\ ~o.new_bin
       THEN [packer |-> o.packer, ret |-> PRet("none", None)]
       ELSE LET r == add_cub(q.open_bins[1], width, height, depth, rid)
                q1 == [q EXCEPT !.open_bins[1] = r.bin]
            IN IF r.ret.kind = "cub"
               THEN [packer |-> q1, ret |-> PRet("cub", r.ret.cub)]
               ELSE IF Len(p.open_bins) # 0 /\ ~o.new_bin
               THEN [packer |-> o.packer, ret |-> PRet("none", None)]
               ELSE PackerBNFMixin_add_cub_keeping(
                        [q1 EXCEPT
                            !.open_bins = Tail(@),
                            !.closed_bins = Append(@, q1.open_bins[1])],
                        width, height, depth, rid)

RECURSIVE PackerBNFMixin_add_cub(_, _, _, _, _)
\* the head open bin of q has answered r
BNF_tried(q, width, height, depth, rid, r) ==
    IF r.ret.kind = "cub"
    THEN [packer |-> [q EXCEPT !.open_bins[1] = r.bin],
          ret |-> PRet("cub", r.ret.cub)]
    ELSE IF r.ret.kind = "TypeError"
    THEN [packer |-> [q EXCEPT !.open_bins[1] = r.bin],
          ret |-> PRet("TypeError", None)]
    ELSE PackerBNFMixin_add_cub(
             [q EXCEPT !.open_bins = Tail(@),
                       !.closed_bins = Append(@, r.bin)],
             width, height, depth, rid)

\* o: the packer with an open bin, or without after _new_open_bin
BNF_open(o, width, height, depth, rid) ==
    IF ~o.new_bin
    THEN [packer |-> o.packer, ret |-> PRet("none", None)]
    ELSE BNF_tried(o.packer, width, height, depth, rid,
                   add_cub(o.packer.open_bins[1], width, height, depth, rid))

PackerBNFMixin_add_cub(p, width, height, depth, rid) ==
    IF Len(p.open_bins) = 0 /\ raises_new_open_bin(p)
    THEN [packer |-> p, ret |-> PRet("TypeError", None)]
    ELSE BNF_open(IF Len(p.open_bins) = 0
                  THEN PackerOnline_new_open_bin(p, width, height, depth)
                  ELSE [packer |-> p, new_bin |-> TRUE],
                  width, height, depth, rid)

(***************************************************************************)
(* packer.py: PackerBFFMixin.add_cub                                       *)
(***************************************************************************)
\* the loop that opens bins, shared by BFF and BBF: found is the value
\* returned when a new bin takes the item, missed the value returned when
\* no bin is left to open
RECURSIVE open_until_placed(_, _, _, _, _, _, _)
\* the bin opened last in q has answered r
opened_tried(q, width, height, depth, rid, found, missed, r) ==
    IF r.ret.kind = "cub"
    THEN [packer |-> [q EXCEPT !.open_bins[Len(q.open_bins)] = r.bin],
          ret |-> PRet(found, IF found = "cub" THEN r.ret.cub ELSE None)]
    ELSE IF r.ret.kind = "TypeError"
    THEN [packer |-> [q EXCEPT !.open_bins[Len(q.open_bins)] = r.bin],
          ret |-> PRet("TypeError", None)]
    ELSE open_until_placed(
             [q EXCEPT !.open_bins[Len(q.open_bins)] = r.bin],
             width, height, depth, rid, found, missed)

\* _new_open_bin has answered o
opened_new(o, width, height, depth, rid, found, missed) ==
    IF ~o.new_bin
    THEN [packer |-> o.packer, ret |-> PRet(missed, None)]
    ELSE opened_tried(o.packer, width, height, depth, rid, found, missed,
             add_cub(o.packer.open_bins[Len(o.packer.open_bins)],
                     width, height, depth, rid))

open_until_placed(p, width, height, depth, rid, found, missed) ==
    IF raises_new_open_bin(p)
    THEN [packer |-> p, ret |-> PRet("TypeError", None)]
    ELSE opened_new(PackerOnline_new_open_bin(p, width, height, depth),
                    width, height, depth, rid, found, missed)

\* the loop over the open bins, from the i-th on
RECURSIVE first_fit_from(_, _, _, _, _, _)
\* the i-th open bin has answered r
first_fit_tried(p, i, width, height, depth, rid, r) ==
    IF r.ret.kind = "cub"
    THEN [packer |-> [p EXCEPT !.open_bins[i] = r.bin],
          ret |-> PRet("cub", r.ret.cub)]
    ELSE IF r.ret.kind = "TypeError"
    THEN [packer |-> [p EXCEPT !.open_bins[i] = r.bin],
          ret |-> PRet("TypeError", None)]
    ELSE first_fit_from([p EXCEPT !.open_bins[i] = r.bin],
                        i + 1, width, height, depth, rid)

first_fit_from(p, i, width, height, depth, rid) ==
    IF i > Len(p.open_bins)
    THEN open_until_placed(p, width, height, depth, rid, "cub", "none")
    ELSE first_fit_tried(p, i, width, height, depth, rid,
             add_cub(p.open_bins[i], width, height, depth, rid))

\* mutant: a bin is opened for the item before the open bins are tried
PackerBFFMixin_add_cub_opening(p, width, height, depth, rid) ==
    LET r == open_until_placed(p, width, height, depth, rid, "cub", "none")
    IN IF r.ret.kind = "cub" THEN r
       ELSE first_fit_from(r.packer, 1, width, height, depth, rid)

PackerBFFMixin_add_cub(p, width, height, depth, rid) ==
    first_fit_from(p, 1, width, height, depth, rid)

(***************************************************************************)
(* packer.py: PackerBBFMixin.add_cub                                       *)
(***************************************************************************)
\* the open bins that report a fitness, in order of opening
open_fit(p, width, height, depth) ==
    SelectSeq([i \in 1..Len(p.open_bins) |->
                  [fit |-> fitness(p.open_bins[i], width, height, depth),
                   b |-> i]],
              LAMBDA e : e.fit # None)

\* mutant: the first open bin that reports a fitness is taken
PackerBBFMixin_add_cub_first(p, width, height, depth, rid) ==
    LET fit == open_fit(p, width, height, depth)
    IN IF fit # <<>>
       THEN LET best_bin == fit[1].b
                r == add_cub(p.open_bins[best_bin],
                             width, height, depth, rid)
            IN [packer |-> [p EXCEPT !.open_bins[best_bin] = r.bin],
                ret |-> PRet("True", None)]
       ELSE open_until_placed(p, width, height, depth, rid, "True", "False")

\* best_bin.add_cub has answered r
best_tried(p, best_bin, r) ==
    [packer |-> [p EXCEPT !.open_bins[best_bin] = r.bin],
     ret |-> IF r.ret.kind = "TypeError"
             THEN PRet("TypeError", None)
             ELSE PRet("True", None)]

\* the open bins that report a fitness are fit
best_fit(p, width, height, depth, rid, fit) ==
    IF fit # <<>>
    THEN best_tried(p, min_first(fit).b,
                    add_cub(p.open_bins[min_first(fit).b],
                            width, height, depth, rid))
    ELSE open_until_placed(p, width, height, depth, rid, "True", "False")

PackerBBFMixin_add_cub(p, width, height, depth, rid) ==
    best_fit(p, width, height, depth, rid, open_fit(p, width, height, depth))

\* the add_cub of the mixin of the packer's class
mixin_add_cub(p, width, height, depth, rid) ==
    IF mixin(p.cls) = "BNF"
    THEN PackerBNFMixin_add_cub(p, width, height, depth, rid)
    ELSE IF mixin(p.cls) = "BFF"
    THEN PackerBFFMixin_add_cub(p, width, height, depth, rid)
    ELSE PackerBBFMixin_add_cub(p, width, height, depth, rid)

(***************************************************************************)
(* packer.py: Packer (the off-line classes) and PackerGlobal               *)
(***************************************************************************)
Packer_add_bin(p, width, height, depth, count) ==
    [p EXCEPT !.avail_bins = Append(@, <<width, height, depth, count>>)]

Packer_add_cub(p, width, height, depth, rid) ==
    [p EXCEPT !.avail_cub = Append(@, <<width, height, depth, rid>>)]

is_everything_ready(p) == p.avail_cub # <<>> /\ p.avail_bins # <<>>

\* the loop of pack() over avail_bins, from the i-th on
RECURSIVE add_avail_bins(_, _)
add_avail_bins(p, i) ==
    IF i > Len(p.avail_bins) THEN p
    ELSE add_avail_bins(
             PackerOnline_add_bin(p, p.avail_bins[i][1], p.avail_bins[i][2],
                                  p.avail_bins[i][3], p.avail_bins[i][4]),
             i + 1)

\* the loop of Packer.pack() over sorted_cub, from the i-th on
RECURSIVE add_sorted_cub(_, _)
\* add_cub of the i-th sorted item has answered r
added_sorted_cub(i, r) ==
    IF r.ret.kind = "TypeError" THEN r
    ELSE add_sorted_cub(r.packer, i + 1)

add_sorted_cub(p, i) ==
    IF i > Len(p.sorted_cub)
    THEN [packer |-> p, ret |-> PRet("none", None)]
    ELSE added_sorted_cub(i,
             mixin_add_cub(p, p.sorted_cub[i][1], p.sorted_cub[i][2],
                           p.sorted_cub[i][3], p.sorted_cub[i][4]))

\* mutant: the bins and items of the earlier call are kept
Packer_pack_accumulating(p) ==
    IF ~is_everything_ready(p)
    THEN [packer |-> p, ret |-> PRet("none", None)]
    ELSE LET p1 == add_avail_bins(p, 1)
             p2 == [p1 EXCEPT
                       !.sorted_cub = sort_cublist(p.sort_algo, p.avail_cub)]
         IN add_sorted_cub(p2, 1)

Packer_pack(p) ==
    LET p0 == PackerOnline_reset(p)
    IN IF ~is_everything_ready(p0)
       THEN [packer |-> p0, ret |-> PRet("none", None)]
       ELSE LET p1 == add_avail_bins(p0, 1)
                p2 == [p1 EXCEPT
                          !.sorted_cub =
                              sort_cublist(p.sort_algo, p.avail_cub)]
            IN add_sorted_cub(p2, 1)

\* mutant: the first pending item that has a fitness is taken
find_best_fit_first(p, pbin) ==
    LET fit == SelectSeq(
                   [k \in 1..Len(p.sorted_cub) |->
                       [fit |-> fitness(pbin, p.sorted_cub[k].cub[1],
                                        p.sorted_cub[k].cub[2],
                                        p.sorted_cub[k].cub[3]),
                        b |-> k]],
                   LAMBDA e : e.fit # None)
    IN IF fit = <<>> THEN None ELSE Some(fit[1].b)

\* PackerGlobal._find_best_fit: the position in sorted_cub of the pending
\* item with the least fitness, the first of them on ties; None when no
\* pending item has a fitness
find_best_fit(p, pbin) ==
    LET fit == SelectSeq(
                   [k \in 1..Len(p.sorted_cub) |->
                       [fit |-> fitness(pbin, p.sorted_cub[k].cub[1],
                                        p.sorted_cub[k].cub[2],
                                        p.sorted_cub[k].cub[3]),
                        b |-> k]],
                   LAMBDA e : e.fit # None)
    IN IF fit = <<>> THEN None ELSE Some(min_first(fit).b)

\* the inner loop of PackerGlobal.pack(); pbin is the n-th open bin
RECURSIVE Global_fill(_, _)
\* PackerBNFMixin.add_cub(self, *best_cub) has answered r
Global_filled(n, r) ==
    IF r.ret.kind = "TypeError" THEN r
    ELSE Global_fill(r.packer, n)

\* _find_best_fit has answered best_cub_key
Global_best(p, n, best_cub_key) ==
    IF best_cub_key = None
    THEN [packer |-> [p EXCEPT !.open_bins = Tail(@),
                               !.closed_bins = Append(@, p.open_bins[1])],
          ret |-> PRet("none", None)]
    ELSE Global_filled(n,
             PackerBNFMixin_add_cub(
                 [p EXCEPT !.sorted_cub = delete_at(@, {best_cub_key[1]})],
                 p.sorted_cub[best_cub_key[1]].cub[1],
                 p.sorted_cub[best_cub_key[1]].cub[2],
                 p.sorted_cub[best_cub_key[1]].cub[3],
                 p.sorted_cub[best_cub_key[1]].cub[4]))

Global_fill(p, n) == Global_best(p, n, find_best_fit(p, p.open_bins[n]))

\* the outer loop of PackerGlobal.pack()
RECURSIVE Global_loop(_)
\* the inner loop has ended with f
Global_looped(f) ==
    IF f.ret.kind = "TypeError" THEN f
    ELSE Global_loop(f.packer)

\* _new_open_bin(self._sorted_cub) has answered o
Global_opened(o) ==
    IF ~o.new_bin
    THEN [packer |-> o.packer, ret |-> PRet("none", None)]
    ELSE Global_looped(Global_fill(o.packer, Len(o.packer.open_bins)))

Global_loop(p) ==
    IF Len(p.sorted_cub) = 0
    THEN [packer |-> p, ret |-> PRet("none", None)]
    ELSE Global_opened(PackerGlobal_new_open_bin(p))

\* collections.OrderedDict(enumerate(...))
enumerate(s) == [k \in 1..Len(s) |-> [key |-> k - 1, cub |-> s[k]]]

PackerGlobal_pack(p) ==
    LET p0 == PackerOnline_reset(p)
    IN IF ~is_everything_ready(p0)
       THEN [packer |-> p0, ret |-> PRet("none", None)]
       ELSE LET p1 == add_avail_bins(p0, 1)
                p2 == [p1 EXCEPT
                          !.sorted_cub =
                              enumerate(sort_cublist(p.sort_algo,
                                                     p.avail_cub))]
            IN Global_loop(p2)

(***************************************************************************)
(* packer.py: PackerOnline.cub_list                                        *)
(***************************************************************************)
RECURSIVE cub_list_from(_, _)
cub_list_from(bs, bin_count) ==
    IF bs = <<>> THEN <<>>
    ELSE [i \in 1..Len(Head(bs).cuboids) |->
             LET cub == Head(bs).cuboids[i]
             IN <<bin_count, cub.x, cub.y, cub.z,
                  cub.width, cub.height, cub.depth, cub.rid>>]
         \o cub_list_from(Tail(bs), bin_count + 1)

cub_list(p) == cub_list_from(bins(p), 0)

(***************************************************************************)
(* The methods of a packer, whichever its class                            *)
(***************************************************************************)
packer_add_bin(p, width, height, depth, count) ==
    IF p.cls \in OfflineClasses
    THEN Packer_add_bin(p, width, height, depth, count)
    ELSE PackerOnline_add_bin(p, width, height, depth, count)

packer_add_cub(p, width, height, depth, rid) ==
    IF p.cls \in OfflineClasses
    THEN [packer |-> Packer_add_cub(p, width, height, depth, rid),
          ret |-> PRet("none", None)]
    ELSE mixin_add_cub(p, width, height, depth, rid)

pack(p) ==
    IF p.cls = "PackerGlobal" THEN PackerGlobal_pack(p) ELSE Packer_pack(p)

(***************************************************************************)
(* The state machine of the on-line packers: a packer of one of the three  *)
(* on-line classes and the outcome of the last call on it.                 *)
(***************************************************************************)
\* add_bin is called at most MaxBins times on a packer
MaxBins == 2
\* an on-line packer is not called once it holds MaxItems items, an
\* off-line packer is handed at most MaxItems items
MaxItems == 3

\* the templates (width, height, depth, count) and the items
\* (width, height, depth) handed to an on-line packer
OnlineTemplates == {<<5, 5, 5, 1>>, <<2, 2, 1, 1>>, <<3, 1, 1, 2>>}

OnlineItems == {<<5, 5, 5>>, <<1, 1, 1>>, <<1, 2, 1>>}

\* MaxCubsBssf (the default of every packer) and GuillotineBlsfSas
PackAlgos ==
    {[family |-> "MaxCubs", sel |-> "Bssf", split |-> "none",
      merge |-> FALSE],
     [family |-> "Guillotine", sel |-> "Blsf", split |-> "Sas",
      merge |-> TRUE]}

placed_count(p) == Len(cub_list(p))

\* the call op has answered r
Returned(op, r) ==
    /\ packer' = r.packer
    /\ last' = [op |-> op, ret |-> r.ret]

OnlineInit ==
    /\ \E cls \in OnlineClasses, pack_algo \in PackAlgos,
          rotation \in BOOLEAN :
          packer = Packer(cls, pack_algo, "SORT_NONE", rotation)
    /\ last = [op |-> "new", ret |-> PRet("none", None)]
    /\ bin = None /\ A = None /\ B = None

OnlineAddBin ==
    /\ packer.bin_count < MaxBins
    /\ \E t \in OnlineTemplates :
          packer' = packer_add_bin(packer, t[1], t[2], t[3], t[4])
    /\ last' = [op |-> "add_bin", ret |-> PRet("none", None)]
    /\ UNCHANGED <<bin, A, B>>

OnlineAddCub ==
    /\ placed_count(packer) < MaxItems
    /\ \E c \in OnlineItems, rid \in Rids :
          Returned("add_cub", packer_add_cub(packer, c[1], c[2], c[3], rid))
    /\ UNCHANGED <<bin, A, B>>

OnlineNext == OnlineAddBin \/ OnlineAddCub

OnlineSpec == OnlineInit /\ [][OnlineNext]_vars

(***************************************************************************)
(* The state machine of the off-line packers: bins and items are           *)
(* registered, then pack() is called (any number of times).                *)
(***************************************************************************)
OfflineTemplates == {<<10, 10, 10, 1>>, <<9, 9, 9, 2>>}

OfflineItems == {<<10, 1, 1>>, <<9, 9, 9>>}

SortAlgos == {"SORT_NONE", "SORT_VOLUME"}

\* the packer holds no bin and no factory: pack() was not called, or found
\* nothing to do
unpacked(p) ==
    p.closed_bins = <<>> /\ p.open_bins = <<>> /\ p.empty_bins = <<>>

OfflineInit ==
    /\ \E cls \in OfflineClasses, pack_algo \in PackAlgos,
          sort_algo \in SortAlgos, rotation \in BOOLEAN :
          packer = Packer(cls, pack_algo, sort_algo, rotation)
    /\ last = [op |-> "new", ret |-> PRet("none", None)]
    /\ bin = None /\ A = None /\ B = None

OfflineAddBin ==
    /\ unpacked(packer)
    /\ Len(packer.avail_bins) < MaxBins
    /\ \E t \in OfflineTemplates :
          packer' = packer_add_bin(packer, t[1], t[2], t[3], t[4])
    /\ last' = [op |-> "add_bin", ret |-> PRet("none", None)]
    /\ UNCHANGED <<bin, A, B>>

OfflineAddCub ==
    /\ unpacked(packer)
    /\ Len(packer.avail_cub) < MaxItems
    /\ \E c \in OfflineItems, rid \in Rids :
          packer' = Packer_add_cub(packer, c[1], c[2], c[3], rid)
    /\ last' = [op |-> "add_cub", ret |-> PRet("none", None)]
    /\ UNCHANGED <<bin, A, B>>

Pack ==
    /\ Returned("pack", pack(packer))
    /\ UNCHANGED <<bin, A, B>>

OfflineNext == OfflineAddBin \/ OfflineAddCub \/ Pack

OfflineSpec == OfflineInit /\ [][OfflineNext]_vars

(***************************************************************************)
(* Vocabulary of the packer properties                                     *)
(***************************************************************************)
size_of(b) == <<b.width, b.height, b.depth>>

\* the factories of p, in order, whose fits_inside accepts the item c
fitting(p, c) ==
    SelectSeq(p.empty_bins,
              LAMBDA e : BinFactory_fits_inside(e.fac, c[1], c[2], c[3]).ret)

RECURSIVE copies(_, _)
copies(x, n) == IF n <= 0 THEN <<>> ELSE <<x>> \o copies(x, n - 1)

\* the sizes of the bins a list of factories can still hand out, in order
RECURSIVE stock(_)
stock(fs) ==
    IF fs = <<>> THEN <<>>
    ELSE copies(size_of(Head(fs).fac), Head(fs).fac.count) \o stock(Tail(fs))

\* the bins of q that p did not have yet
opened(p, q) == SubSeq(bins(q), Len(bins(p)) + 1, Len(bins(q)))

\* the bin takes the item
takes(b, c) == add_cub(b, c[1], c[2], c[3], None).ret.kind = "cub"

\* the packers and the values returned of a run of add_cub calls
RECURSIVE run_add_cub(_, _, _)
run_add_cub(p, items, kinds) ==
    IF items = <<>> THEN [packer |-> p, kinds |-> kinds]
    ELSE LET r == packer_add_cub(p, Head(items)[1], Head(items)[2],
                                 Head(items)[3], None)
         IN run_add_cub(r.packer, Tail(items), Append(kinds, r.ret.kind))

\* two templates (5, 5, 5) x 1 are registered and nothing else was done
S4_registered(p) ==
    /\ bins(p) = <<>>
    /\ Len(p.empty_bins) = 2
    /\ \A i \in 1..2 : p.empty_bins[i].fac =
          BinFactory(5, 5, 5, 1, p.pack_algo, p.rotation)

(***************************************************************************)
(* C14  Next-Fit (BNF): at most one bin is open; add_cub attempts the item *)
(* on the head open bin only; when that attempt fails the bin moves to     *)
(* closed_bins, where no bin ever changes again, and the bins then opened  *)
(* are those of the templates that fit, in order, until one takes the      *)
(* item; when no template that fits is left add_cub returns None.  Two     *)
(* templates (5, 5, 5) x 1 and three items (5, 5, 5) give two bins holding *)
(* one item each, the third item is not placed.                            *)
(***************************************************************************)
C14_NextFit ==
    mixin(packer.cls) = "BNF" =>
        /\ Len(packer.open_bins) <= 1
        /\ \A c \in OnlineItems :
              LET r == packer_add_cub(packer, c[1], c[2], c[3], None)
                  q == r.packer
                  nc == Len(packer.closed_bins)
                  head_takes == /\ packer.open_bins # <<>>
                                /\ takes(packer.open_bins[1], c)
                  new == opened(packer, q)
                  slots == stock(fitting(packer, c))
              IN /\ Len(q.open_bins) <= 1
                 /\ SubSeq(q.closed_bins, 1, nc) = packer.closed_bins
                 /\ head_takes =>
                       /\ r.ret.kind = "cub"
                       /\ q.closed_bins = packer.closed_bins
                       /\ q.empty_bins = packer.empty_bins
                       /\ q.open_bins =
                             <<add_cub(packer.open_bins[1],
                                       c[1], c[2], c[3], None).bin>>
                 /\ (packer.open_bins # <<>> /\ ~head_takes) =>
                       /\ Len(q.closed_bins) > nc
                       /\ q.closed_bins[nc + 1] = packer.open_bins[1]
                 /\ ~head_takes =>
                       /\ Len(new) <= Len(slots)
                       /\ \A k \in 1..Len(new) : size_of(new[k]) = slots[k]
                       /\ \A k \in 1..(Len(new) - 1) : new[k].cuboids = <<>>
                       /\ r.ret.kind = "none" =>
                             /\ q.open_bins = <<>>
                             /\ Len(new) = Len(slots)
                             /\ fitting(q, c) = <<>>
                       /\ r.ret.kind = "cub" =>
                             /\ Len(new) >= 1
                             /\ q.open_bins = <<new[Len(new)]>>
                             /\ new[Len(new)].cuboids = <<r.ret.cub[1]>>
        /\ S4_registered(packer) =>
              LET r == run_add_cub(packer,
                           <<<<5, 5, 5>>, <<5, 5, 5>>, <<5, 5, 5>>>>, <<>>)
              IN /\ r.kinds = <<"cub", "cub", "none">>
                 /\ cub_list(r.packer) =
                       <<<<0, 0, 0, 0, 5, 5, 5, None>>,
                         <<1, 0, 0, 0, 5, 5, 5, None>>>>
                 /\ Len(bins(r.packer)) = 2

\* the third item (5, 5, 5) has been refused by a Next-Fit packer whose two
\* bins (5, 5, 5), now closed, hold one item each
C14_Witness ==
    /\ packer.cls = "PackerOnlineBNF"
    /\ last.op = "add_cub"
    /\ last.ret.kind = "none"
    /\ packer.bin_count = 2
    /\ packer.empty_bins = <<>>
    /\ packer.open_bins = <<>>
    /\ Len(packer.closed_bins) = 2
    /\ \A i \in 1..2 :
          /\ size_of(packer.closed_bins[i]) = <<5, 5, 5>>
          /\ Len(packer.closed_bins[i].cuboids) = 1

\* the open bins of p that take the item c, in order of opening
takers(p, c) ==
    SelectSeq([i \in 1..Len(p.open_bins) |-> i],
              LAMBDA i : takes(p.open_bins[i], c))

(***************************************************************************)
(* C15  First-Fit (BFF): add_cub places the item in the first open bin, in *)
(* order of opening, whose add_cub succeeds, and then opens no bin; when   *)
(* every open bin rejected the item, bins are opened from the templates    *)
(* that fit, in order, each new bin is tried, and opening goes on until a  *)
(* bin takes the item or no fitting template remains, when None is         *)
(* returned.  No bin is ever moved to closed_bins.                         *)
(***************************************************************************)
C15_FirstFit ==
    mixin(packer.cls) = "BFF" =>
        /\ packer.closed_bins = <<>>
        /\ \A c \in OnlineItems :
              LET r == packer_add_cub(packer, c[1], c[2], c[3], None)
                  q == r.packer
                  n == Len(packer.open_bins)
                  ts == takers(packer, c)
                  new == opened(packer, q)
                  slots == stock(fitting(packer, c))
              IN /\ q.closed_bins = <<>>
                 /\ ts # <<>> =>
                       /\ r.ret.kind = "cub"
                       /\ q.empty_bins = packer.empty_bins
                       /\ q.open_bins =
                             [packer.open_bins EXCEPT ![ts[1]] =
                                 add_cub(@, c[1], c[2], c[3], None).bin]
                       /\ r.ret.cub[1] =
                             q.open_bins[ts[1]].cuboids[
                                 Len(q.open_bins[ts[1]].cuboids)]
                 /\ ts = <<>> =>
                       /\ SubSeq(q.open_bins, 1, n) = packer.open_bins
                       /\ Len(new) <= Len(slots)
                       /\ \A k \in 1..Len(new) : size_of(new[k]) = slots[k]
                       /\ \A k \in 1..(Len(new) - 1) : new[k].cuboids = <<>>
                       /\ r.ret.kind = "none" =>
                             /\ Len(new) = Len(slots)
                             /\ \A k \in 1..Len(new) : new[k].cuboids = <<>>
                             /\ fitting(q, c) = <<>>
                       /\ r.ret.kind = "cub" =>
                             /\ Len(new) >= 1
                             /\ new[Len(new)].cuboids = <<r.ret.cub[1]>>
                       /\ r.ret.kind \in {"none", "cub"}

\* a First-Fit packer holds an open bin that was opened for an item and
\* could not take it, and behind it the bin that took the item
C15_Witness ==
    /\ packer.cls = "PackerOnlineBFF"
    /\ last.op = "add_cub"
    /\ last.ret.kind = "cub"
    /\ Len(packer.open_bins) >= 2
    /\ packer.open_bins[1].cuboids = <<>>
    /\ last_open(packer).cuboids = <<last.ret.cub[1]>>

\* the fitness each open bin of p reports for the item c, in order of opening
fits(p, c) ==
    [i \in 1..Len(p.open_bins) |->
        fitness(p.open_bins[i], c[1], c[2], c[3])]

\* i is the earliest opened of the open bins of p reporting the least fitness
is_best(p, c, i) ==
    /\ i \in 1..Len(p.open_bins)
    /\ fits(p, c)[i] # None
    /\ \A j \in 1..Len(p.open_bins) :
          fits(p, c)[j] # None =>
              /\ fits(p, c)[i][1] <= fits(p, c)[j][1]
              /\ fits(p, c)[i][1] = fits(p, c)[j][1] => i <= j

(***************************************************************************)
(* C16  Best-Fit (BBF): when some open bin reports a fitness for the item, *)
(* add_cub places the item in the open bin of least fitness, the earliest  *)
(* opened among equal minima, and opens no bin; only when every open bin   *)
(* reports None are bins opened and tried, in template order.              *)
(***************************************************************************)
C16_BestFit ==
    mixin(packer.cls) = "BBF" =>
        \A c \in OnlineItems :
           LET r == packer_add_cub(packer, c[1], c[2], c[3], None)
               q == r.packer
               n == Len(packer.open_bins)
               new == opened(packer, q)
               slots == stock(fitting(packer, c))
           IN /\ \A i \in 1..n :
                    is_best(packer, c, i) =>
                       /\ r.ret.kind = "True"
                       /\ new = <<>>
                       /\ q.empty_bins = packer.empty_bins
                       /\ q.closed_bins = packer.closed_bins
                       /\ \A j \in 1..n :
                             j # i => q.open_bins[j] = packer.open_bins[j]
                       /\ Len(q.open_bins[i].cuboids) =
                             Len(packer.open_bins[i].cuboids) + 1
                       /\ q.open_bins[i] =
                             add_cub(packer.open_bins[i],
                                     c[1], c[2], c[3], None).bin
              /\ (\A i \in 1..n : fits(packer, c)[i] = None) =>
                    /\ SubSeq(bins(q), 1, Len(bins(packer))) = bins(packer)
                    /\ Len(new) <= Len(slots)
                    /\ \A k \in 1..Len(new) : size_of(new[k]) = slots[k]
                    /\ \A k \in 1..(Len(new) - 1) : new[k].cuboids = <<>>
                    /\ r.ret.kind = "False" =>
                          /\ Len(new) = Len(slots)
                          /\ \A k \in 1..Len(new) : new[k].cuboids = <<>>
                          /\ fitting(q, c) = <<>>
                    /\ r.ret.kind = "True" =>
                          /\ Len(new) >= 1
                          /\ Len(new[Len(new)].cuboids) = 1
                    /\ r.ret.kind \in {"True", "False"}

\* a Best-Fit packer has put the item (1, 1, 1) behind another item in the
\* bin opened last, although the bin opened first, still empty, reports a
\* fitness for it as well
C16_Witness ==
    /\ packer.cls = "PackerOnlineBBF"
    /\ last.op = "add_cub"
    /\ last.ret.kind = "True"
    /\ Len(packer.open_bins) >= 2
    /\ packer.open_bins[1].cuboids = <<>>
    /\ fitness(packer.open_bins[1], 1, 1, 1) # None
    /\ Len(last_open(packer).cuboids) = 2
    /\ LET c == last_open(packer).cuboids[2]
       IN <<c.width, c.height, c.depth>> = <<1, 1, 1>>

\* the fitness the bin b reports for each pending item, in pending order
item_fits(b, pending) ==
    [i \in 1..Len(pending) |->
        fitness(b, pending[i][1], pending[i][2], pending[i][3])]

\* the pending item of least fitness against b, the earliest on ties
lowest(b, pending) ==
    CHOOSE i \in 1..Len(pending) :
        /\ item_fits(b, pending)[i] # None
        /\ \A j \in 1..Len(pending) :
              item_fits(b, pending)[j] # None =>
                  /\ item_fits(b, pending)[i][1] <= item_fits(b, pending)[j][1]
                  /\ item_fits(b, pending)[i][1] = item_fits(b, pending)[j][1]
                        => i <= j

\* one bin is filled as described: while a pending item has a fitness, the
\* one of lowest fitness is placed and leaves the pending items
RECURSIVE filled(_, _)
filled(b, pending) ==
    IF \A i \in 1..Len(pending) : item_fits(b, pending)[i] = None
    THEN [bin |-> b, pending |-> pending]
    ELSE LET i == lowest(b, pending)
         IN filled(add_cub(b, pending[i][1], pending[i][2], pending[i][3],
                           pending[i][4]).bin,
                   delete_at(pending, {i}))

\* the bins closed by a packing as described, from the templates ts (width,
\* height, depth, count): the next template in which a pending item fits is
\* opened and filled
RECURSIVE closed_as_described(_, _, _, _, _)
closed_as_described(ts, pending, closed, pack_algo, rot) ==
    IF ts = <<>> \/ pending = <<>> THEN closed
    ELSE LET t == Head(ts)
             f == BinFactory(t[1], t[2], t[3], t[4], pack_algo, rot)
         IN IF \/ t[4] < 1
               \/ \A i \in 1..Len(pending) :
                     ~BinFactory_fits_inside(f, pending[i][1], pending[i][2],
                                             pending[i][3]).ret
            THEN closed_as_described(Tail(ts), pending, closed,
                                     pack_algo, rot)
            ELSE LET r == filled(create_bin(f), pending)
                 IN closed_as_described(
                        <<<<t[1], t[2], t[3], t[4] - 1>>>> \o Tail(ts),
                        r.pending, Append(closed, r.bin), pack_algo, rot)

(***************************************************************************)
(* C17  PackerGlobal.pack(): each opened bin receives, one at a time, the  *)
(* pending item of lowest fitness against the bin's current state (the     *)
(* earliest pending item on ties), which leaves the pending items; the bin *)
(* is closed exactly when no pending item has a fitness, and then the next *)
(* template in which some pending item fits is opened.  After pack() no    *)
(* bin is open.                                                            *)
(***************************************************************************)
C17_GlobalPack ==
    packer.cls = "PackerGlobal" =>
        LET r == pack(packer)
        IN /\ r.ret.kind = "none"
           /\ r.packer.open_bins = <<>>
           /\ r.packer.closed_bins =
                 closed_as_described(
                     packer.avail_bins,
                     sort_cublist(packer.sort_algo, packer.avail_cub),
                     <<>>, packer.pack_algo, packer.rotation)
           /\ last.op = "pack" => packer.open_bins = <<>>

\* PackerGlobal has packed (9, 9, 9) first although (10, 1, 1) was
\* registered first and the items were not sorted
C17_Witness ==
    /\ packer.cls = "PackerGlobal"
    /\ packer.sort_algo = "SORT_NONE"
    /\ last.op = "pack"
    /\ Len(packer.avail_cub) >= 2
    /\ SubSeq(packer.avail_cub[1], 1, 3) = <<10, 1, 1>>
    /\ packer.closed_bins # <<>>
    /\ Len(packer.closed_bins[1].cuboids) >= 2
    /\ LET c == packer.closed_bins[1].cuboids[1]
       IN <<c.width, c.height, c.depth>> = <<9, 9, 9>>

\* the state after pack() of scenario S6: PackerGlobal with its default
\* algorithm and rotation, one bin (10, 10, 10), the items (10, 1, 1) and
\* (9, 9, 9) registered in this order
S6_packed ==
    /\ packer.cls = "PackerGlobal"
    /\ packer.pack_algo.family = "MaxCubs"
    /\ packer.pack_algo.sel = "Bssf"
    /\ packer.rotation
    /\ packer.avail_bins = <<<<10, 10, 10, 1>>>>
    /\ packer.avail_cub = <<<<10, 1, 1, None>>, <<9, 9, 9, None>>>>
    /\ last.op = "pack"

(***************************************************************************)
(* C18  Scenario S6: PackerGlobal with the default MaxCubsBssf, one bin    *)
(* (10, 10, 10), items registered in the order (10, 1, 1), (9, 9, 9):      *)
(* pack() places (9, 9, 9) first, at the origin, as the first entry of the *)
(* bin's placed list, and then (10, 1, 1) in the same bin.                 *)
(***************************************************************************)
C18_S6 ==
    S6_packed =>
        /\ Len(bins(packer)) = 1
        /\ Len(bins(packer)[1].cuboids) = 2
        /\ LET first == bins(packer)[1].cuboids[1]
               second == bins(packer)[1].cuboids[2]
           IN /\ <<first.x, first.y, first.z>> = <<0, 0, 0>>
              /\ <<first.width, first.height, first.depth>> = <<9, 9, 9>>
              /\ {second.width, second.height, second.depth} = {10, 1}

\* the sum of the numbers of the sequence s
RECURSIVE sum(_)
sum(s) == IF s = <<>> THEN 0 ELSE Head(s) + sum(Tail(s))

\* the bins of the size sz: registered with the packer p, handed out by its
\* factories, and left in them
registered(p, sz) ==
    sum([i \in 1..Len(p.avail_bins) |->
            IF SubSeq(p.avail_bins[i], 1, 3) = sz
            THEN p.avail_bins[i][4] ELSE 0])
materialised(p, sz) ==
    sum([i \in 1..Len(bins(p)) |->
            IF size_of(bins(p)[i]) = sz THEN 1 ELSE 0])
remaining(p, sz) ==
    sum([i \in 1..Len(p.empty_bins) |->
            IF size_of(p.empty_bins[i].fac) = sz
            THEN p.empty_bins[i].fac.count ELSE 0])

\* new_bin is called on the factory until its count is used up: the factory
\* then, and whether every call returned a bin
RECURSIVE drained(_, _)
drained(f, all_bins) ==
    IF f.count < 1 THEN [fac |-> f, all_bins |-> all_bins]
    ELSE drained(BinFactory_new_bin(f).fac,
                 all_bins /\ BinFactory_new_bin(f).ret # None)

(***************************************************************************)
(* C19  Bin inventory: the bins materialised from the templates of a size  *)
(* (open plus closed), together with those its factories can still hand    *)
(* out, never exceed the count the templates were registered with;         *)
(* fits_inside and fitness probes leave the remaining count of a factory   *)
(* as it was; no factory with remaining count 0 stays in empty_bins; and   *)
(* new_bin on a depleted factory returns None.                             *)
(***************************************************************************)
C19_BinInventory ==
    /\ \A t \in OfflineTemplates :
          LET sz == <<t[1], t[2], t[3]>>
          IN materialised(packer, sz) + remaining(packer, sz)
                <= registered(packer, sz)
    /\ \A k \in 1..Len(packer.empty_bins) :
          LET f == packer.empty_bins[k].fac
              d == drained(f, TRUE)
          IN /\ f.count >= 1
             /\ \A c \in OfflineItems :
                   /\ BinFactory_fits_inside(f, c[1], c[2], c[3]).fac.count
                         = f.count
                   /\ BinFactory_fitness(f, c[1], c[2], c[3]).fac.count
                         = f.count
             /\ d.all_bins
             /\ d.fac.count = 0
             /\ BinFactory_new_bin(d.fac).ret = None
             /\ BinFactory_new_bin(d.fac).fac.count = 0
    /\ \A sz \in {size_of(b) : b \in {bins(packer)[i] :
                                        i \in 1..Len(bins(packer))}} :
          \E t \in OfflineTemplates : sz = <<t[1], t[2], t[3]>>

\* after pack() the only bin of the template (10, 10, 10) x 1 is in use and
\* its factory is gone, one bin of the template (9, 9, 9) x 2 is in use and
\* its factory has one left
C19_Witness ==
    /\ last.op = "pack"
    /\ packer.avail_bins = <<<<10, 10, 10, 1>>, <<9, 9, 9, 2>>>>
    /\ Len(bins(packer)) = 2
    /\ Len(packer.empty_bins) = 1
    /\ size_of(packer.empty_bins[1].fac) = <<9, 9, 9>>
    /\ packer.empty_bins[1].fac.count = 1

\* the calls of add_bin and add_cub that registered the bins and items of
\* p, made on the packer q
RECURSIVE registering(_, _, _, _)
registering(q, p, i, j) ==
    IF i <= Len(p.avail_bins)
    THEN registering(packer_add_bin(q, p.avail_bins[i][1], p.avail_bins[i][2],
                                    p.avail_bins[i][3], p.avail_bins[i][4]),
                     p, i + 1, j)
    ELSE IF j <= Len(p.avail_cub)
    THEN registering(packer_add_cub(q, p.avail_cub[j][1], p.avail_cub[j][2],
                                    p.avail_cub[j][3],
                                    p.avail_cub[j][4]).packer,
                     p, i, j + 1)
    ELSE q

\* a second packer of the same class, algorithm, sort key and rotation
\* flag, given the same bins and items
twin(p) ==
    registering(Packer(p.cls, p.pack_algo, p.sort_algo, p.rotation), p, 1, 1)

(***************************************************************************)
(* C20  P6 determinism: a second off-line packer given the same bins,      *)
(* items, algorithm, sort key and rotation flag has the same cub_list()    *)
(* after pack(); and calling pack() again on a packer, its bins and items  *)
(* unchanged, gives the same cub_list() as the call before: pack() resets  *)
(* and does not accumulate earlier results.                                *)
(***************************************************************************)
C20_Determinism ==
    LET first == pack(packer).packer
        second == pack(first).packer
        other == pack(twin(packer)).packer
    IN /\ cub_list(first) = cub_list(other)
       /\ cub_list(second) = cub_list(first)
       /\ Len(bins(second)) = Len(bins(first))
       /\ last.op = "pack" =>
             /\ cub_list(packer) = cub_list(other)
             /\ cub_list(first) = cub_list(packer)

\* pack() has placed two items or more, in two bins
C20_Witness ==
    /\ last.op = "pack"
    /\ Len(cub_list(packer)) >= 2
    /\ Len(bins(packer)) >= 2
    /\ packer.cls # "PackerGlobal"
    /\ cub_list(pack(packer).packer) = cub_list(packer)

(***************************************************************************)
(* C21  The on-line packers (Next-Fit, First-Fit, Best-Fit): add_cub       *)
(* returns the placed item, a cuboid with its coordinates and rid that is  *)
(* now in a bin, when the item was placed, and returns None, raising       *)
(* nothing, when it could not be placed.                                   *)
(***************************************************************************)
C21_OnlineReturn ==
    last.op = "add_cub" =>
        \/ /\ last.ret.kind = "cub"
           /\ \E i \in 1..Len(packer.open_bins) :
                 \E k \in 1..Len(packer.open_bins[i].cuboids) :
                     packer.open_bins[i].cuboids[k] = last.ret.cub[1]
        \/ last.ret.kind = "none"

\* the score the selection strategy sel gives an item of size (w, h, d)
\* against a free section s
selection_score(sel, s, w, h, d) ==
    CASE sel = "Bvf" -> s.width * s.height * s.depth - w * h * d
      [] sel = "Blsf" -> Max3(s.width - w, s.height - h, s.depth - d)
      [] sel = "Bssf" -> Min3(s.width - w, s.height - h, s.depth - d)

\* the orientations of (w, h, d) that bin b may use
orientations(b, w, h, d) ==
    {<<w, h, d>>} \cup (IF b.rot THEN {<<h, w, d>>} ELSE {})

(***************************************************************************)
(* C22  Guillotine section selection (BVF: section volume less item        *)
(* volume, BLSF: the largest of the three leftover side lengths, BSSF: the *)
(* smallest): a successful add_cub places the item at the origin of a free *)
(* section that the item, as oriented, exceeds on no axis and whose score  *)
(* is the least over all pairs of a section and an allowed orientation     *)
(* that fit; that section is no longer in the free list afterwards.        *)
(***************************************************************************)
C22_SectionSelection ==
    bin.family = "Guillotine" =>
        \A w \in Dims, h \in Dims, d \in Dims :
           LET r == Guillotine_add_cub(bin, w, h, d, None)
               c == r.ret.cub[1]
           IN r.ret.kind = "cub" =>
                 /\ <<c.width, c.height, c.depth>>
                       \in orientations(bin, w, h, d)
                 /\ \E i \in 1..Len(bin.sections) :
                       LET s == bin.sections[i]
                       IN /\ c.x = s.x /\ c.y = s.y /\ c.z = s.z
                          /\ holds(s, c.width, c.height, c.depth)
                          /\ \A j \in 1..Len(bin.sections) :
                                \A o \in orientations(bin, w, h, d) :
                                   holds(bin.sections[j], o[1], o[2], o[3])
                                   => selection_score(bin.sel, s, c.width,
                                                      c.height, c.depth)
                                        <= selection_score(bin.sel,
                                               bin.sections[j],
                                               o[1], o[2], o[3])
                          /\ \A k \in 1..Len(r.bin.sections) :
                                ~eq(r.bin.sections[k], s)
                          /\ \A k \in 1..Len(r.bin.sections) :
                                ~overlap(r.bin.sections[k], c)

\* a Guillotine bin that holds an item has several free sections that can
\* take an item with different scores, and add_cub puts that item in a
\* section that is not the first of the list
C22_Witness ==
    /\ bin.family = "Guillotine"
    /\ returned_item
    /\ \E w \in Dims, h \in Dims, d \in Dims :
          LET r == Guillotine_add_cub(bin, w, h, d, None)
          IN /\ r.ret.kind = "cub"
             /\ ~eq(r.ret.region[1], bin.sections[1])
             /\ holds(bin.sections[1], w, h, d)
             /\ selection_score(bin.sel, bin.sections[1], w, h, d)
                   > selection_score(bin.sel, r.ret.region[1],
                                     r.ret.cub[1].width, r.ret.cub[1].height,
                                     r.ret.cub[1].depth)

(***************************************************************************)
(* The bins and items of the worked scenarios: one bin of any exported     *)
(* class, of a size the scenarios use, takes the scenarios' items          *)
(***************************************************************************)
ScenarioSizes == {<<10, 10, 10>>, <<6, 6, 6>>}

ScenarioItems == {<<4, 4, 4>>, <<5, 5, 5>>, <<6, 4, 10>>}

ScenarioInit ==
    /\ \E a \in Algorithms, size \in ScenarioSizes, rot \in BOOLEAN :
          bin = reset(PackingAlgorithm(a.family, a.sel, a.split,
                          size[1], size[2], size[3], rot, a.merge))
    /\ last = [op |-> "reset", ret |-> RetNone]
    /\ A = None /\ B = None /\ packer = None

\* the bin after a call, and what the call returned
BinReturned(r) ==
    /\ bin' = r.bin
    /\ last' = [op |-> "add_cub", ret |-> r.ret]

ScenarioAddCub ==
    /\ Len(bin.cuboids) < MaxPlaced
    /\ \E c \in ScenarioItems, rid \in Rids :
          BinReturned(add_cub(bin, c[1], c[2], c[3], rid))
    /\ UNCHANGED <<A, B, packer>>

\* the score of a probe, as the call returns it
Scored(f) ==
    last' = [op |-> "fitness",
             ret |-> IF f = None THEN RetNone
                     ELSE Ret("score", None, f, None, FALSE)]

ScenarioFitness ==
    /\ Len(bin.cuboids) < MaxPlaced
    /\ \E c \in ScenarioItems : Scored(fitness(bin, c[1], c[2], c[3]))
    /\ UNCHANGED <<bin, A, B, packer>>

ScenarioNext == ScenarioAddCub \/ ScenarioFitness

ScenarioSpec == ScenarioInit /\ [][ScenarioNext]_vars

\* bin b is of the class whose selection and split rules are sel and split
is_class(b, family, sel, split) ==
    b.family = family /\ b.sel = sel /\ b.split = split

\* the first item of a (10, 10, 10) bin has just been placed: (4, 4, 4)
first_is_444 ==
    /\ <<bin.width, bin.height, bin.depth>> = <<10, 10, 10>>
    /\ returned_item
    /\ Len(bin.cuboids) = 1
    /\ <<bin.cuboids[1].width, bin.cuboids[1].height, bin.cuboids[1].depth>>
          = <<4, 4, 4>>

(***************************************************************************)
(* C23  Scenario S2: a GuillotineBssfSas bin of size (10, 10, 10) with     *)
(* merging disabled holds, after add_cub(4, 4, 4), the item                *)
(* (0, 0, 0, 4, 4, 4) and exactly the free sections (0, 4, 0, 10, 6, 10),  *)
(* (4, 0, 0, 6, 4, 10) and (0, 0, 4, 4, 4, 6), in some order.              *)
(***************************************************************************)
C23_S2 ==
    (is_class(bin, "Guillotine", "Bssf", "Sas") /\ ~bin.merge
        /\ first_is_444) =>
        /\ key(bin.cuboids[1]) = <<0, 0, 0, 4, 4, 4>>
        /\ Len(bin.sections) = 3
        /\ {key(bin.sections[i]) : i \in 1..Len(bin.sections)}
              = {<<0, 4, 0, 10, 6, 10>>, <<4, 0, 0, 6, 4, 10>>,
                 <<0, 0, 4, 4, 4, 6>>}

\* the split GuillotineMaxas._split selects for an item of size (w, h, d),
\* as placed, in section s
maxas_horizontal(s, w, h, d) ==
    w * ((s.height - h) + (s.depth - d))
        <= h * ((s.width - w) + (s.depth - d))

(***************************************************************************)
(* C24  The MAXAS split variants are usable: for GuillotineBssfMaxas,      *)
(* GuillotineBlsfMaxas and GuillotineBvfMaxas, add_cub of an item that     *)
(* fits a free section returns the placed item and replaces the section by *)
(* the offcuts of a horizontal or of a vertical split, chosen by comparing *)
(* w * ((Sh - h) + (Sd - d)) with h * ((Sw - w) + (Sd - d)); no error is   *)
(* raised.                                                                 *)
(***************************************************************************)
C24_MaxasUsable ==
    (bin.family = "Guillotine" /\ bin.split = "Maxas") =>
        \A w \in Dims, h \in Dims, d \in Dims :
           LET r == Guillotine_add_cub(bin, w, h, d, None)
           IN ~unplaceable(bin, w, h, d) =>
                 /\ r.ret.kind = "cub"
                 /\ LET s == r.ret.region[1]
                        c == r.ret.cub[1]
                        removed == [bin EXCEPT
                                       !.sections = remove(bin.sections, s)]
                    IN r.bin.sections =
                          IF maxas_horizontal(s, c.width, c.height, c.depth)
                          THEN split_horizontal(removed, s, c.width,
                                                c.height, c.depth).sections
                          ELSE split_vertical(removed, s, c.width,
                                              c.height, c.depth).sections

\* the score the MaxCubs selector sel gives an item of size (w, h, d)
\* against a maximal cuboid m
maxcub_score(sel, m, w, h, d) ==
    CASE sel = "Bssf" -> Min3(m.width - w, m.height - h, m.depth - d)
      [] sel = "Blsf" -> Max3(m.width - w, m.height - h, m.depth - d)
      [] sel = "Baf" -> m.width * m.height * m.depth - w * h * d

\* the least member of a set of numbers
least_of(S) == CHOOSE x \in S : \A y \in S : x <= y

\* the scores of the candidates of bin b that can take (w, h, d): every
\* maximal cuboid with every allowed orientation that fits it
candidate_scores(b, w, h, d) ==
    {maxcub_score(b.sel, b.max_cubs[i], o[1], o[2], o[3]) :
        <<i, o>> \in {p \in (1..Len(b.max_cubs)) \X orientations(b, w, h, d) :
                        holds(b.max_cubs[p[1]], p[2][1], p[2][2], p[2][3])}}

(***************************************************************************)
(* C25  The MaxCubs scoring selectors (Bssf: the smallest leftover side    *)
(* length, Blsf: the largest, Baf: maximal-cuboid volume less item         *)
(* volume): fitness returns the least such score over the candidates that  *)
(* fit, and add_cub places the item at the origin of a candidate attaining *)
(* it; so an empty MaxCubsBssf bin of size (6, 6, 6) scores the item       *)
(* (5, 5, 5) lower than an empty one of size (10, 10, 10), and Best-Fit    *)
(* puts the item in the (6, 6, 6) bin.                                     *)
(***************************************************************************)
C25_MaxCubsScores ==
    (bin.family = "MaxCubs" /\ bin.sel \in {"Bssf", "Blsf", "Baf"}) =>
        \A c \in ScenarioItems :
           LET scores == candidate_scores(bin, c[1], c[2], c[3])
               f == MaxCubs_fitness(bin, c[1], c[2], c[3])
               r == MaxCubs_add_cub(bin, c[1], c[2], c[3], None)
           IN IF scores = {}
              THEN f = None /\ r.ret.kind = "none"
              ELSE /\ f = Some(least_of(scores))
                   /\ r.ret.kind = "cub"
                   /\ \E i \in 1..Len(bin.max_cubs) :
                         LET m == bin.max_cubs[i]
                             p == r.ret.cub[1]
                         IN /\ p.x = m.x /\ p.y = m.y /\ p.z = m.z
                            /\ holds(m, p.width, p.height, p.depth)
                            /\ maxcub_score(bin.sel, m, p.width, p.height,
                                            p.depth) = least_of(scores)

\* the candidates of a MaxCubsBl bin for (w, h, d): the placements of the
\* item, in an allowed orientation, at the origin of a maximal cuboid that
\* holds it
candidates(b, w, h, d) ==
    {Cuboid(b.max_cubs[p[1]].x, b.max_cubs[p[1]].y, b.max_cubs[p[1]].z,
            p[2][1], p[2][2], p[2][3], None) :
        p \in {q \in (1..Len(b.max_cubs)) \X orientations(b, w, h, d) :
                 holds(b.max_cubs[q[1]], q[2][1], q[2][2], q[2][3])}}

\* placement a is at least as far down, then left, then to the front as c
bottom_left_first(a, c) ==
    \/ a.y + a.height < c.y + c.height
    \/ /\ a.y + a.height = c.y + c.height
       /\ \/ a.x < c.x
          \/ a.x = c.x /\ a.z <= c.z

(***************************************************************************)
(* C26  MaxCubsBl bottom-left selection: among all candidates (a maximal   *)
(* cuboid with an allowed orientation that fits), add_cub uses one whose   *)
(* y plus item height is lowest; among candidates equal on that value it   *)
(* uses one of smallest x, and then of smallest z, whatever the order of   *)
(* the maximal-cuboid list.                                                *)
(***************************************************************************)
C26_BottomLeft ==
    (bin.family = "MaxCubs" /\ bin.sel = "Bl") =>
        \A w \in Dims, h \in Dims, d \in Dims :
           LET r == MaxCubs_add_cub(bin, w, h, d, None)
           IN candidates(bin, w, h, d) # {} =>
                 /\ r.ret.kind = "cub"
                 /\ \E a \in candidates(bin, w, h, d) :
                       /\ key(a) = key(r.ret.cub[1])
                       /\ \A c \in candidates(bin, w, h, d) :
                             bottom_left_first(a, c)

\* m lies in n and is not the same cuboid
strictly_contained(m, n) == contains(n, m) /\ ~eq(m, n)

\* the keys of the members of list s that no other member strictly contains
maximal_keys(s) ==
    {key(s[i]) : i \in {i \in 1..Len(s) :
                          \A j \in 1..Len(s) : ~strictly_contained(s[i], s[j])}}

\* the maximal-cuboid list of bin b after the split for the item add_cub
\* places for (w, h, d), before the pruning
post_split(b, w, h, d) ==
    split_each(b.max_cubs, select_position(b, w, h, d)[1].cub)

(***************************************************************************)
(* C27  MaxCubs duplicate pruning: after every successful add_cub the      *)
(* maximal-cuboid list is the post-split list without exactly the members  *)
(* that some other member strictly contains; every member that no other    *)
(* strictly contains survives, two structurally equal members leaving one  *)
(* representative, and the outcome as a set does not depend on the order   *)
(* of the list.                                                            *)
(***************************************************************************)
C27_DuplicatePruning ==
    bin.family = "MaxCubs" =>
        \A w \in Dims, h \in Dims, d \in Dims :
           LET r == MaxCubs_add_cub(bin, w, h, d, None)
               after == r.bin.max_cubs
           IN r.ret.kind = "cub" =>
                 /\ {key(after[i]) : i \in 1..Len(after)}
                       = maximal_keys(post_split(bin, w, h, d))
                 /\ \A i, j \in 1..Len(after) :
                       i < j => ~eq(after[i], after[j])

\* an item of size (w, h, d) fits an empty bin of factory f in an
\* orientation the factory's rotation flag allows
fits_empty(f, w, h, d) ==
    \/ w <= f.width /\ h <= f.height /\ d <= f.depth
    \/ f.rot /\ h <= f.width /\ w <= f.height /\ d <= f.depth

(***************************************************************************)
(* C28  The empty-bin fit probe: BinFactory.fits_inside(w, h, d), that is  *)
(* PackingAlgorithm._fits_volume on an empty bin, returns true exactly     *)
(* when w <= W, h <= H and d <= D or, only with rotation enabled,          *)
(* h <= W, w <= H and d <= D; with rotation disabled the swapped           *)
(* orientation is never considered, so a bin opened for an item always     *)
(* accepts that item.                                                      *)
(***************************************************************************)
C28_FitsInside ==
    /\ \A i \in 1..Len(packer.empty_bins) :
          \A c \in OnlineItems :
             BinFactory_fits_inside(packer.empty_bins[i].fac,
                                    c[1], c[2], c[3]).ret
                <=> fits_empty(packer.empty_bins[i].fac, c[1], c[2], c[3])
    /\ \A c \in OnlineItems :
          LET r == packer_add_cub(packer, c[1], c[2], c[3], None)
              new == opened(packer, r.packer)
          IN \A k \in 1..Len(new) : new[k].cuboids # <<>>

\* the closed boxes a and b have a point in common
closed_meet(a, b) ==
    /\ a.x <= b.x + b.width /\ b.x <= a.x + a.width
    /\ a.y <= b.y + b.height /\ b.y <= a.y + a.height
    /\ a.z <= b.z + b.depth /\ b.z <= a.z + a.depth

\* a and b have a boundary plane in common on each of the three axes
corner_only(a, b) ==
    /\ a.x = b.x + b.width \/ b.x = a.x + a.width
    /\ a.y = b.y + b.height \/ b.y = a.y + a.height
    /\ a.z = b.z + b.depth \/ b.z = a.z + a.depth

(***************************************************************************)
(* C29  intersects, for cuboids of positive dimensions: with edges false,  *)
(* A.intersects(B) is true exactly when the open interiors overlap, so     *)
(* cuboids that touch only at a face, an edge or a corner do not           *)
(* intersect; with edges true it is true exactly when the closed boxes     *)
(* share a point, unless they touch only at a single corner (their         *)
(* boundary planes coincide on all three axes), which is still rejected.   *)
(***************************************************************************)
C29_Intersects ==
    /\ intersects(A, B, FALSE) <=> overlap(A, B)
    /\ intersects(A, B, TRUE) <=> (closed_meet(A, B) /\ ~corner_only(A, B))
    /\ last.op = "intersects" =>
          last.ret = IF last.edges
                     THEN closed_meet(last.self, last.other)
                             /\ ~corner_only(last.self, last.other)
                     ELSE overlap(last.self, last.other)

\* intersects, asked to accept touching cuboids, has rejected two cuboids
\* whose only common point is a corner
C29_Witness ==
    /\ last.op = "intersects" /\ last.edges /\ ~last.ret
    /\ closed_meet(A, B) /\ corner_only(A, B)
    /\ last.self = A /\ last.other = B

\* the unit cells of bin b
bin_cells(b) ==
    {<<i, j, k>> : i \in 0..(b.width - 1), j \in 0..(b.height - 1),
                   k \in 0..(b.depth - 1)}

\* the unit cells the members of list s cover
covered(s) == UNION {cells(s[i]) : i \in 1..Len(s)}

(***************************************************************************)
(* C30  No free space is lost in MaxCubs: after any sequence of successful *)
(* add_cub calls on a MaxCubs bin, every unit cell of the bin that no      *)
(* placed item covers is covered by a member of the maximal-cuboid list:   *)
(* the union of the list is the bin less the placed items.                 *)
(***************************************************************************)
C30_NoSpaceLost ==
    (bin.family = "MaxCubs" /\ (last.op = "reset" \/ returned_item)) =>
        covered(bin.max_cubs) = bin_cells(bin) \ covered(bin.cuboids)

====
